---- MODULE Spec2Model ----
(***************************************************************************)
(* A model of the milestone-chain publish workflow, the student progress   *)
(* engine and the exam-slot distribution engine of the esd_backend         *)
(* repository.  Every request handler is translated from its controller.   *)
(*                                                                         *)
(* The exam-schedule handlers read one document, change it and save it:    *)
(* each is one action.  The chain, milestone and student-milestone         *)
(* handlers touch several documents; each `await` of such a handler is one *)
(* step of a request process, so that concurrent requests interleave at    *)
(* the places Node.js lets them interleave.                                *)
(*                                                                         *)
(* Later sections model the one-time passwords of the email service, the   *)
(* account handlers that reset passwords and issue tokens, event           *)
(* registration and the team membership handlers.                          *)
(***************************************************************************)
EXTENDS Integers, Sequences, FiniteSets, TLC

(***************************************************************************)
(* Bounds of the model.                                                    *)
(***************************************************************************)
MaxSlots == 2        \* legacy slots added by manualAssignTeam
MaxDay == 3          \* days 1..MaxDay are offered as request dates

(***************************************************************************)
(* JavaScript values.  A number is a tagged record so that undefined and   *)
(* NaN are values of their own and arithmetic on them behaves as in JS.    *)
(***************************************************************************)
J(n) == [k |-> "num", v |-> n]
Undefined == [k |-> "undefined", v |-> 0]
NaN == [k |-> "nan", v |-> 0]
IsNum(a) == a.k = "num"

\* a * b, a + b, a - b on JS numbers: anything that is not a number gives NaN
JsMul(a, b) == IF IsNum(a) /\ IsNum(b) THEN J(a.v * b.v) ELSE NaN
JsAdd(a, b) == IF IsNum(a) /\ IsNum(b) THEN J(a.v + b.v) ELSE NaN
JsSub(a, b) == IF IsNum(a) /\ IsNum(b) THEN J(a.v - b.v) ELSE NaN
\* a > b: every comparison with NaN is false
JsGt(a, b) == IsNum(a) /\ IsNum(b) /\ a.v > b.v
\* a || 0 for a number or undefined
JsOrZero(a) == IF IsNum(a) /\ a.v # 0 THEN a.v ELSE 0

\* "HH:MM" strings are pairs <<hours, minutes>>
\* const [h, m] = t.split(':').map(Number); h * 60 + m
ParseTime(t) == t[1] * 60 + t[2]
\* `${String(h).padStart(2,'0')}:${String(m).padStart(2,'0')}` of floor(x/60), x%60
FormatTime(x) == <<x \div 60, x % 60>>

Null == "null"
NoResp == [op |-> "none", status |-> 0, msg |-> "", data |-> <<>>]

VARIABLES
  examSchedule,      \* the ExamSchedule document
  resp,              \* response of the last exam-schedule request
  chains,            \* MilestoneChain collection: chain id -> document
  milestones,        \* Milestone collection: milestone id -> document
  studentMilestones, \* StudentMilestone collection: sequence of documents
  reqs,              \* requests in flight: process -> handler position and locals
  now,               \* wall clock, in minutes
  otpStore,          \* emailService's otpStore Map: identifier -> entry
  users,             \* User collection: email -> document
  events,            \* Event collection: event id -> document
  teamDocs           \* Team collection: team id -> document

vars == <<examSchedule, resp, chains, milestones, studentMilestones, reqs, now,
          otpStore, users, events, teamDocs>>

\* the stores a group of handlers never touches: empty, and left as they are
NoStores == otpStore = <<>> /\ users = <<>> /\ events = <<>> /\ teamDocs = <<>>
StoresUnchanged == UNCHANGED <<otpStore, users, events, teamDocs>>

(***************************************************************************)
(* The collections the exam handlers only read.                            *)
(***************************************************************************)
\* Team.find({}) in listing order
TeamList == <<"t1", "t2", "t3">>
\* User.find({role: 'mentor', ...}) in listing order
MentorList == <<"m1", "m2">>
Range(s) == {s[i] : i \in DOMAIN s}
Teams == Range(TeamList)
Mentors == Range(MentorList)

Days == 1..MaxDay
\* the per-team durations a schedule is created with
Durations == {30, 260}

(***************************************************************************)
(* ExamSchedule: document, pre-save hook, sub-document ids.                *)
(***************************************************************************)
\* examScheduleSchema.pre('save'): statistics recomputed only for a non-empty list
PreSave(doc) ==
  IF Len(doc.slots) > 0
  THEN [doc EXCEPT !.statistics =
         [totalSlots |-> Len(doc.slots),
          scheduledSlots |-> Cardinality({i \in DOMAIN doc.slots : doc.slots[i].status = "scheduled"}),
          completedSlots |-> Cardinality({i \in DOMAIN doc.slots : doc.slots[i].status = "completed"}),
          pendingSlots |-> Cardinality({i \in DOMAIN doc.slots : doc.slots[i].team = Null})]]
  ELSE doc

\* ids of all slot sub-documents of the schedule
MentorSlotIds(doc) ==
  UNION {{doc.mentorSchedules[i].slots[j].id : j \in DOMAIN doc.mentorSchedules[i].slots}
         : i \in DOMAIN doc.mentorSchedules}

\* _id values of new sub-documents.  An ObjectId is only ever compared with the ids
\* of the slots the schedule holds, so a new legacy slot gets the smallest number no
\* legacy slot has, and slot j of the i-th mentor schedule gets 100 * i + j.
LegacySlotIds(doc) == {doc.slots[i].id : i \in DOMAIN doc.slots}
MentorSlotId(i, j) == 100 * i + j
RECURSIVE FreshIds(_, _)
FreshIds(used, n) ==
  IF n = 0 THEN <<>>
  ELSE LET id == CHOOSE x \in 1..(Cardinality(used) + 1) :
                   x \notin used /\ \A y \in 1..(x - 1) : y \in used
       IN <<id>> \o FreshIds(used \cup {id}, n - 1)

\* index of the first element satisfying a test, 0 when none (findIndex / .id())
SlotIndex(slots, id) ==
  IF \E i \in DOMAIN slots : slots[i].id = id
  THEN CHOOSE i \in DOMAIN slots : slots[i].id = id /\ \A j \in 1..(i - 1) : slots[j].id # id
  ELSE 0
MentorScheduleIndex(doc, mentor) ==
  IF \E i \in DOMAIN doc.mentorSchedules : doc.mentorSchedules[i].mentor = mentor
  THEN CHOOSE i \in DOMAIN doc.mentorSchedules :
         /\ doc.mentorSchedules[i].mentor = mentor
         /\ \A j \in 1..(i - 1) : doc.mentorSchedules[j].mentor # mentor
  ELSE 0

RemoveAt(s, i) == [j \in 1..(Len(s) - 1) |-> IF j < i THEN s[j] ELSE s[j + 1]]

ExamUnchanged ==
  /\ UNCHANGED <<chains, milestones, studentMilestones, reqs, now>>
  /\ StoresUnchanged

\* ExamSchedule.create({... status: 'draft'}) with the schema defaults
NewExamSchedule(duration) ==
  [startDate |-> 1, endDate |-> MaxDay - 1, duration |-> duration,
   status |-> "draft", assignmentType |-> "manual",
   allowMentorReschedule |-> TRUE,
   slots |-> <<>>, mentorSchedules |-> <<>>,
   statistics |-> [totalSlots |-> 0, scheduledSlots |-> 0,
                   completedSlots |-> 0, pendingSlots |-> 0]]

(***************************************************************************)
(* Exam-schedule handlers (examScheduleController.js).                     *)
(***************************************************************************)
\* a faulty variant of RollsOver that lets a slot start at 18:00
RollsOverLate(newHours) == newHours > 18

\* if (newHours >= 18): the next slot moves to the next day
RollsOver(newHours) == newHours >= 18

\* the for-loop of randomDistributeTeams from team i on, over the listings
\* teams and mentors that the handler read; ids are the new slots' ids
RECURSIVE DistributeLoop(_, _, _, _, _, _, _, _)
DistributeLoop(teams, mentors, i, ids, currentDate, slotTime, duration, acc) ==
  IF i > Len(teams) THEN acc
  ELSE LET mentor == mentors[((i - 1) % Len(mentors)) + 1]
           slot == [id |-> ids[i], mentor |-> mentor, team |-> teams[i],
                    scheduledDate |-> currentDate, scheduledTime |-> slotTime,
                    duration |-> duration, status |-> "scheduled"]
           totalMinutes == ParseTime(slotTime) + duration + 10
           newHours == totalMinutes \div 60
       IN IF RollsOver(newHours)
          THEN DistributeLoop(teams, mentors, i + 1, ids, currentDate + 1, <<9, 0>>,
                              duration, Append(acc, slot))
          ELSE DistributeLoop(teams, mentors, i + 1, ids, currentDate,
                              FormatTime(totalMinutes), duration, Append(acc, slot))

\* mentors and teams are the listings User.find and Team.find return; the
\* response's data names the listings next to the schedule
randomDistributeTeams(teams, mentors) ==
  /\ IF Len(mentors) = 0
     THEN /\ resp' = [op |-> "randomDistributeTeams", status |-> 400,
                      msg |-> "No mentors available", data |-> <<>>]
          /\ UNCHANGED examSchedule
     ELSE IF Len(teams) = 0
     THEN /\ resp' = [op |-> "randomDistributeTeams", status |-> 400,
                      msg |-> "No teams available", data |-> <<>>]
          /\ UNCHANGED examSchedule
     ELSE LET ids == FreshIds({}, Len(teams))
              slots == DistributeLoop(teams, mentors, 1, ids, examSchedule.startDate,
                                      <<9, 0>>, examSchedule.duration, <<>>)
          IN /\ examSchedule' = PreSave([examSchedule EXCEPT !.slots = slots,
                                           !.assignmentType = "random",
                                           !.status = "active"])
             /\ resp' = [op |-> "randomDistributeTeams", status |-> 200,
                         msg |-> "Teams distributed randomly successfully",
                         data |-> [teams |-> teams, mentors |-> mentors]]
  /\ ExamUnchanged

\* duration 0 stands for a request without duration (duration || examSchedule.duration)
manualAssignTeam(mentorId, teamId, scheduledDate, scheduledTime, duration) ==
  /\ Len(examSchedule.slots) < MaxSlots
  /\ LET id == FreshIds(LegacySlotIds(examSchedule), 1)[1]
         slot == [id |-> id, mentor |-> mentorId, team |-> teamId,
                  scheduledDate |-> scheduledDate, scheduledTime |-> scheduledTime,
                  duration |-> IF duration # 0 THEN duration ELSE examSchedule.duration,
                  status |-> "scheduled"]
     IN examSchedule' = PreSave([examSchedule EXCEPT !.slots = Append(@, slot),
                                   !.assignmentType = "manual"])
  /\ resp' = [op |-> "manualAssignTeam", status |-> 200,
              msg |-> "Team assigned successfully", data |-> <<>>]
  /\ ExamUnchanged

\* mentorId "" and scheduledDate 0 stand for fields the request leaves out
updateSlotAssignment(slotId, mentorId, scheduledDate) ==
  /\ LET i == SlotIndex(examSchedule.slots, slotId)
     IN IF i = 0
        THEN /\ resp' = [op |-> "updateSlotAssignment", status |-> 404,
                         msg |-> "Slot not found", data |-> <<>>]
             /\ UNCHANGED examSchedule
        ELSE /\ examSchedule' = PreSave([examSchedule EXCEPT
                  !.slots[i].mentor = IF mentorId # "" THEN mentorId ELSE @,
                  !.slots[i].scheduledDate = IF scheduledDate # 0 THEN scheduledDate ELSE @])
             /\ resp' = [op |-> "updateSlotAssignment", status |-> 200,
                         msg |-> "Slot updated successfully", data |-> <<>>]
  /\ ExamUnchanged

deleteSlot(slotId) ==
  /\ LET i == SlotIndex(examSchedule.slots, slotId)
     IN IF i = 0
        THEN /\ resp' = [op |-> "deleteSlot", status |-> 404,
                         msg |-> "Slot not found", data |-> <<>>]
             /\ UNCHANGED examSchedule
        ELSE /\ examSchedule' = PreSave([examSchedule EXCEPT !.slots = RemoveAt(@, i)])
             /\ resp' = [op |-> "deleteSlot", status |-> 200,
                         msg |-> "Slot deleted successfully", data |-> <<>>]
  /\ ExamUnchanged

\* a faulty variant of OwnsSlot for which every mentor owns every slot
AnyMentor(slot, user) == TRUE

\* slot.mentor.toString() === req.user._id.toString()
OwnsSlot(slot, user) == slot.mentor = user

\* the sub-document with a path set that it may not have held before
SetPath(doc, path, value) ==
  [f \in DOMAIN doc \cup {path} |-> IF f = path THEN value ELSE doc[f]]

\* a mentor moves one of their own slots; the new date is checked against the period
rescheduleSlot(user, slotId, scheduledDate, scheduledTime) ==
  /\ LET i == SlotIndex(examSchedule.slots, slotId)
     IN IF ~examSchedule.allowMentorReschedule
        THEN /\ resp' = [op |-> "rescheduleSlot", status |-> 403,
                         msg |-> "Mentor rescheduling is not allowed for this exam",
                         data |-> <<>>]
             /\ UNCHANGED examSchedule
        ELSE IF i = 0
        THEN /\ resp' = [op |-> "rescheduleSlot", status |-> 404,
                         msg |-> "Slot not found", data |-> <<>>]
             /\ UNCHANGED examSchedule
        ELSE IF ~OwnsSlot(examSchedule.slots[i], user)
        THEN /\ resp' = [op |-> "rescheduleSlot", status |-> 403,
                         msg |-> "You can only reschedule your own slots", data |-> <<>>]
             /\ UNCHANGED examSchedule
        ELSE IF scheduledDate < examSchedule.startDate \/ scheduledDate > examSchedule.endDate
        THEN /\ resp' = [op |-> "rescheduleSlot", status |-> 400,
                         msg |-> "New date must be within exam schedule period",
                         data |-> <<>>]
             /\ UNCHANGED examSchedule
        ELSE /\ examSchedule' = PreSave([examSchedule EXCEPT
                  !.slots[i].scheduledDate = scheduledDate,
                  !.slots[i].scheduledTime = scheduledTime,
                  !.slots[i].status = "rescheduled"])
             /\ resp' = [op |-> "rescheduleSlot", status |-> 200,
                         msg |-> "Slot rescheduled successfully", data |-> <<>>]
  /\ ExamUnchanged

\* a mentor records the result of one of their own slots
completeExamSlot(user, slotId, score, feedback) ==
  /\ LET i == SlotIndex(examSchedule.slots, slotId)
     IN IF i = 0
        THEN /\ resp' = [op |-> "completeExamSlot", status |-> 404,
                         msg |-> "Slot not found", data |-> <<>>]
             /\ UNCHANGED examSchedule
        ELSE IF ~OwnsSlot(examSchedule.slots[i], user)
        THEN /\ resp' = [op |-> "completeExamSlot", status |-> 403,
                         msg |-> "You can only complete your own slots", data |-> <<>>]
             /\ UNCHANGED examSchedule
        ELSE /\ examSchedule' = PreSave([examSchedule EXCEPT
                  !.slots[i] = [SetPath(SetPath(@, "score", score), "feedback", feedback)
                                  EXCEPT !.status = "completed"]])
             /\ resp' = [op |-> "completeExamSlot", status |-> 200,
                         msg |-> "Exam slot completed successfully", data |-> <<>>]
  /\ ExamUnchanged

(***************************************************************************)
(* Per-mentor scheduling handlers.                                         *)
(***************************************************************************)
\* (totalTeams * teamDuration) + ((totalTotal - 1) * bufferTime) on JS numbers
TotalTimeNeeded(totalTeams, teamDuration, bufferTime) ==
  JsAdd(JsMul(totalTeams, teamDuration), JsMul(JsSub(totalTeams, J(1)), bufferTime))
\* ((endHour * 60) + endMin) - ((startHour * 60) + startMin)
AvailableTime(startTime, endTime) == J(ParseTime(endTime) - ParseTime(startTime))

createMentorSchedule(user, totalTeams, teamDuration, bufferTime, startTime, endTime) ==
  /\ IF MentorScheduleIndex(examSchedule, user) # 0
     THEN /\ resp' = [op |-> "createMentorSchedule", status |-> 400,
                      msg |-> "You already have a schedule for this exam. Use update instead.",
                      data |-> <<>>]
          /\ UNCHANGED examSchedule
     ELSE LET totalTimeNeeded == TotalTimeNeeded(totalTeams, teamDuration, bufferTime)
              availableTime == AvailableTime(startTime, endTime)
          IN IF JsGt(totalTimeNeeded, availableTime)
             THEN /\ resp' = [op |-> "createMentorSchedule", status |-> 400,
                              msg |-> "Total time needed exceeds available time",
                              data |-> [totalTimeNeeded |-> totalTimeNeeded,
                                        availableTime |-> availableTime]]
                  /\ UNCHANGED examSchedule
             ELSE /\ examSchedule' = PreSave([examSchedule EXCEPT !.mentorSchedules =
                       Append(@, [mentor |-> user, totalTeams |-> totalTeams.v,
                                  teamDuration |-> teamDuration.v,
                                  bufferTime |-> JsOrZero(bufferTime),
                                  startTime |-> startTime, endTime |-> endTime,
                                  slots |-> <<>>, isScheduled |-> FALSE])])
                  /\ resp' = [op |-> "createMentorSchedule", status |-> 201,
                              msg |-> "Mentor schedule configuration created successfully",
                              data |-> [totalTimeNeeded |-> totalTimeNeeded,
                                        availableTime |-> availableTime]]
  /\ ExamUnchanged

\* a field the request leaves out is Undefined (numbers) or <<>> (time strings)
updateMentorSchedule(user, totalTeams, teamDuration, bufferTime, startTime, endTime) ==
  /\ LET i == MentorScheduleIndex(examSchedule, user)
     IN IF i = 0
        THEN /\ resp' = [op |-> "updateMentorSchedule", status |-> 404,
                         msg |-> "Mentor schedule not found. Create one first.", data |-> <<>>]
             /\ UNCHANGED examSchedule
        ELSE LET mentorSchedule == examSchedule.mentorSchedules[i]
             IN IF mentorSchedule.isScheduled /\ Len(mentorSchedule.slots) > 0
                THEN /\ resp' = [op |-> "updateMentorSchedule", status |-> 400,
                                 msg |-> "Schedule already has team assignments.",
                                 data |-> <<>>]
                     /\ UNCHANGED examSchedule
                ELSE LET newTotalTeams == IF totalTeams # Undefined THEN totalTeams
                                          ELSE J(mentorSchedule.totalTeams)
                         newTeamDuration == IF teamDuration # Undefined THEN teamDuration
                                            ELSE J(mentorSchedule.teamDuration)
                         newBufferTime == IF bufferTime # Undefined THEN bufferTime
                                          ELSE J(mentorSchedule.bufferTime)
                         newStartTime == IF startTime # <<>> THEN startTime
                                         ELSE mentorSchedule.startTime
                         newEndTime == IF endTime # <<>> THEN endTime
                                       ELSE mentorSchedule.endTime
                         totalTimeNeeded ==
                           TotalTimeNeeded(newTotalTeams, newTeamDuration, newBufferTime)
                         availableTime == AvailableTime(newStartTime, newEndTime)
                     IN IF JsGt(totalTimeNeeded, availableTime)
                        THEN /\ resp' = [op |-> "updateMentorSchedule", status |-> 400,
                                         msg |-> "Total time needed exceeds available time",
                                         data |-> [totalTimeNeeded |-> totalTimeNeeded,
                                                   availableTime |-> availableTime]]
                             /\ UNCHANGED examSchedule
                        ELSE /\ examSchedule' = PreSave([examSchedule EXCEPT
                                  !.mentorSchedules[i].totalTeams = newTotalTeams.v,
                                  !.mentorSchedules[i].teamDuration = newTeamDuration.v,
                                  !.mentorSchedules[i].bufferTime = newBufferTime.v,
                                  !.mentorSchedules[i].startTime = newStartTime,
                                  !.mentorSchedules[i].endTime = newEndTime])
                             /\ resp' = [op |-> "updateMentorSchedule", status |-> 200,
                                         msg |-> "Mentor schedule updated successfully",
                                         data |-> <<>>]
  /\ ExamUnchanged

\* assignedTeamIds: the teams in the slots of the mentorSchedules (the legacy slots
\* list is not scanned)
AssignedTeamIds(doc) ==
  UNION {{doc.mentorSchedules[i].slots[j].team : j \in DOMAIN doc.mentorSchedules[i].slots}
         : i \in DOMAIN doc.mentorSchedules} \ {Null}
AvailableTeams(doc) == Teams \ AssignedTeamIds(doc)

\* the slots generated for selectedTeams from index i on, starting at minute t
RECURSIVE MentorSlotLoop(_, _, _, _, _, _)
MentorSlotLoop(i, selectedTeams, ids, currentTime, mentorSchedule, acc) ==
  IF i > Len(selectedTeams) THEN acc
  ELSE LET totalMinutes == ParseTime(currentTime)
           endMinutes == totalMinutes + mentorSchedule.teamDuration
           nextMinutes == endMinutes + mentorSchedule.bufferTime
           slot == [id |-> ids[i], team |-> selectedTeams[i], startTime |-> currentTime,
                    endTime |-> FormatTime(endMinutes), slotNumber |-> i,
                    status |-> "scheduled"]
       IN MentorSlotLoop(i + 1, selectedTeams, ids, FormatTime(nextMinutes), mentorSchedule,
                         Append(acc, slot))

\* the orders availableTeams.sort(() => 0.5 - Math.random()).slice(0, n) can give
Selections(available, n) ==
  {s \in [1..n -> available] : \A a, b \in 1..n : a # b => s[a] # s[b]}

randomDistributeToMentorSlots(user) ==
  /\ LET i == MentorScheduleIndex(examSchedule, user)
     IN IF i = 0
        THEN /\ resp' = [op |-> "randomDistributeToMentorSlots", status |-> 404,
                         msg |-> "Mentor schedule configuration not found. Create one first.",
                         data |-> <<>>]
             /\ UNCHANGED examSchedule
        ELSE LET mentorSchedule == examSchedule.mentorSchedules[i]
                 availableTeams == AvailableTeams(examSchedule)
             IN IF Cardinality(availableTeams) < mentorSchedule.totalTeams
                THEN /\ resp' = [op |-> "randomDistributeToMentorSlots", status |-> 400,
                                 msg |-> "Not enough available teams.", data |-> <<>>]
                     /\ UNCHANGED examSchedule
                ELSE /\ \E selectedTeams \in
                               Selections(availableTeams, mentorSchedule.totalTeams) :
                          LET ids == [j \in DOMAIN selectedTeams |-> MentorSlotId(i, j)]
                              slots == MentorSlotLoop(1, selectedTeams, ids,
                                         mentorSchedule.startTime, mentorSchedule, <<>>)
                          IN examSchedule' = PreSave([examSchedule EXCEPT
                               !.mentorSchedules[i].slots = slots,
                               !.mentorSchedules[i].isScheduled = TRUE])
                     /\ resp' = [op |-> "randomDistributeToMentorSlots", status |-> 200,
                                 msg |-> "Teams distributed randomly to slots successfully",
                                 data |-> <<>>]
  /\ ExamUnchanged

\* some other slot of some mentor schedule already holds teamId
IsTeamAssigned(doc, slotId, teamId) ==
  \E a \in DOMAIN doc.mentorSchedules : \E b \in DOMAIN doc.mentorSchedules[a].slots :
    LET s == doc.mentorSchedules[a].slots[b]
    IN s.id # slotId /\ s.team # Null /\ s.team = teamId

\* teamId "undefined" is a request without teamId, "" one with an empty teamId
manualEditMentorSlot(user, slotId, teamId, startTime, endTime) ==
  /\ LET i == MentorScheduleIndex(examSchedule, user)
     IN IF i = 0
        THEN /\ resp' = [op |-> "manualEditMentorSlot", status |-> 404,
                         msg |-> "Mentor schedule not found", data |-> <<>>]
             /\ UNCHANGED examSchedule
        ELSE LET slotIndex == SlotIndex(examSchedule.mentorSchedules[i].slots, slotId)
             IN IF slotIndex = 0
                THEN /\ resp' = [op |-> "manualEditMentorSlot", status |-> 404,
                                 msg |-> "Slot not found", data |-> <<>>]
                     /\ UNCHANGED examSchedule
                ELSE IF teamId # "undefined" /\ IsTeamAssigned(examSchedule, slotId, teamId)
                THEN /\ resp' = [op |-> "manualEditMentorSlot", status |-> 400,
                                 msg |-> "This team is already assigned to another slot",
                                 data |-> <<>>]
                     /\ UNCHANGED examSchedule
                ELSE /\ examSchedule' = PreSave([examSchedule EXCEPT
                          !.mentorSchedules[i].slots[slotIndex].team =
                             IF teamId = "undefined" THEN @
                             ELSE IF teamId # "" THEN teamId ELSE Null,
                          !.mentorSchedules[i].slots[slotIndex].startTime =
                             IF startTime # <<>> THEN startTime ELSE @,
                          !.mentorSchedules[i].slots[slotIndex].endTime =
                             IF endTime # <<>> THEN endTime ELSE @])
                     /\ resp' = [op |-> "manualEditMentorSlot", status |-> 200,
                                 msg |-> "Slot updated successfully", data |-> <<>>]
  /\ ExamUnchanged

clearMentorSlots(user) ==
  /\ LET i == MentorScheduleIndex(examSchedule, user)
     IN IF i = 0
        THEN /\ resp' = [op |-> "clearMentorSlots", status |-> 404,
                         msg |-> "Mentor schedule not found", data |-> <<>>]
             /\ UNCHANGED examSchedule
        ELSE /\ examSchedule' = PreSave([examSchedule EXCEPT
                  !.mentorSchedules[i].slots = <<>>,
                  !.mentorSchedules[i].isScheduled = FALSE])
             /\ resp' = [op |-> "clearMentorSlots", status |-> 200,
                         msg |-> "Schedule slots cleared successfully", data |-> <<>>]
  /\ ExamUnchanged

(***************************************************************************)
(* The requests offered to the exam-schedule handlers.                     *)
(***************************************************************************)
ManualTimes == {<<10, 0>>}
Scores == {7}
ManualDates == {1, MaxDay}
TotalTeamsInputs == {J(2), J(5)}
TeamDurationInputs == {J(20)}
BufferTimeInputs == {Undefined, J(5)}
StartTimeInputs == {<<9, 0>>}
EndTimeInputs == {<<10, 30>>}

InitExam ==
  /\ \E d \in Durations : examSchedule = NewExamSchedule(d)
  /\ resp = NoResp
  /\ chains = <<>>
  /\ milestones = <<>>
  /\ studentMilestones = <<>>
  /\ reqs = <<>>
  /\ now = 0
  /\ NoStores

\* the legacy (global) slot handlers
NextExam ==
  \/ randomDistributeTeams(TeamList, MentorList)
  \/ \E m \in Mentors, t \in Teams, d \in ManualDates, tm \in ManualTimes :
       manualAssignTeam(m, t, d, tm, 0)
  \/ \E id \in LegacySlotIds(examSchedule) \cup {0}, m \in Mentors \cup {""},
        d \in ManualDates \cup {0} :
       updateSlotAssignment(id, m, d)
  \/ \E u \in Mentors, id \in LegacySlotIds(examSchedule) \cup {0}, d \in ManualDates,
        tm \in ManualTimes :
       rescheduleSlot(u, id, d, tm)
  \/ \E id \in LegacySlotIds(examSchedule) \cup {0} : deleteSlot(id)

SpecExam == InitExam /\ [][NextExam]_vars

\* the per-mentor handlers, and manual assignment into the legacy list beside them
NextMentor ==
  \/ manualAssignTeam(MentorList[1], TeamList[1], 1, <<10, 0>>, 0)
  \/ \E u \in Mentors, tt \in TotalTeamsInputs, td \in TeamDurationInputs,
        b \in BufferTimeInputs, st \in StartTimeInputs, et \in EndTimeInputs :
       createMentorSchedule(u, tt, td, b, st, et)
  \/ \E u \in Mentors, tt \in TotalTeamsInputs \cup {Undefined},
        b \in BufferTimeInputs, et \in EndTimeInputs \cup {<<>>} :
       updateMentorSchedule(u, tt, Undefined, b, <<>>, et)
  \/ \E u \in Mentors : randomDistributeToMentorSlots(u)
  \/ \E u \in Mentors, id \in MentorSlotIds(examSchedule) \cup {0},
        t \in Teams \cup {"undefined", ""} :
       manualEditMentorSlot(u, id, t, <<>>, <<>>)
  \/ \E u \in Mentors : clearMentorSlots(u)

InitMentor ==
  /\ examSchedule = NewExamSchedule(30)
  /\ resp = NoResp
  /\ chains = <<>>
  /\ milestones = <<>>
  /\ studentMilestones = <<>>
  /\ reqs = <<>>
  /\ now = 0
  /\ NoStores

SpecMentor == InitMentor /\ [][NextMentor]_vars

(***************************************************************************)
(* Properties of the exam-slot engine.                                     *)
(***************************************************************************)
\* every slot of the schedule: <<0, i>> is legacy slot i, <<a, b>> slot b of mentor schedule a
SlotPlaces(doc) ==
  {<<0, i>> : i \in DOMAIN doc.slots} \cup
  UNION {{<<a, b>> : b \in DOMAIN doc.mentorSchedules[a].slots} : a \in DOMAIN doc.mentorSchedules}
TeamAt(doc, p) ==
  IF p[1] = 0 THEN doc.slots[p[2]].team ELSE doc.mentorSchedules[p[1]].slots[p[2]].team

\* C1: after any sequence of exam-schedule operations no team id appears in more than
\* one slot of the schedule, the legacy slots and all mentors' slots counted together.
C1_NoTeamInTwoSlots ==
  \A p, q \in SlotPlaces(examSchedule) :
    (p # q /\ TeamAt(examSchedule, p) # Null)
      => TeamAt(examSchedule, p) # TeamAt(examSchedule, q)

MaxChains == 2       \* chains created by createChain
MaxMilestones == 2   \* milestones created by createMilestone

Procs == {1, 2}
Admin == "admin1"

DateAt(t) == [k |-> "date", v |-> t]
NullDate == [k |-> "null", v |-> 0]

NoChain ==
  [_id |-> 0, status |-> "", publishedBy |-> Null, publishedAt |-> NullDate,
   totalMilestones |-> 0, publishedMilestones |-> 0, editors |-> <<>>]
NoMilestone ==
  [_id |-> 0, chainId |-> 0, name |-> "", type |-> "", duration |-> 0,
   questions |-> <<>>, status |-> "", lastEditedBy |-> Null,
   publishedBy |-> Null, publishedAt |-> NullDate]
NoBody == [name |-> "", type |-> "", duration |-> 0, questions |-> <<>>]

\* a request process that is not handling a request
Idle ==
  [op |-> "idle", pc |-> "idle", chainId |-> 0, milestoneId |-> 0,
   body |-> NoBody, wasPublished |-> FALSE, chain |-> NoChain,
   milestone |-> NoMilestone, count |-> 0]

\* a process that has answered keeps the request it answered
Done(r, op, chainId, milestoneId) ==
  [Idle EXCEPT !.op = op, !.pc = "done", !.chainId = chainId,
               !.milestoneId = milestoneId, !.body = r.body,
               !.wasPublished = r.wasPublished]

IsIdle(p) == reqs[p].pc \in {"idle", "done"}
At(p, op, pc) == reqs[p].op = op /\ reqs[p].pc = pc

\* a deleted document keeps its place in the collection, so that ids stay
\* what they were, and carries this mark in place of its status
Deleted == "deleted"

\* Model.findById(id): the document, or nothing
Exists(coll, id) == id \in DOMAIN coll /\ coll[id].status # Deleted

\* Milestone.find({ chainId }): the ids of the chain's milestones
MilestonesOf(chainId) ==
  {m \in DOMAIN milestones : milestones[m].chainId = chainId /\ Exists(milestones, m)}

\* the schema's required name: a missing or empty name fails validation
ValidMilestone(doc) == doc.name # ""

\* editor tracking: findIndex, then set lastEditedAt or push
TrackEditor(editors, user) ==
  IF \E i \in DOMAIN editors : editors[i].user = user
  THEN [i \in DOMAIN editors |->
          IF i = (CHOOSE j \in DOMAIN editors :
                    /\ editors[j].user = user
                    /\ \A l \in DOMAIN editors : editors[l].user = user => j <= l)
          THEN [editors[i] EXCEPT !.lastEditedAt = DateAt(now)]
          ELSE editors[i]]
  ELSE Append(editors, [user |-> user, lastEditedAt |-> DateAt(now)])

ChainUnchanged ==
  /\ UNCHANGED <<examSchedule, studentMilestones, now>>
  /\ StoresUnchanged

Respond(op, status, msg, data) ==
  resp' = [op |-> op, status |-> status, msg |-> msg, data |-> data]

NoData == [requiresRepublish |-> FALSE, chainStatus |-> ""]

\* createChain: MilestoneChain.create with the schema defaults, 201
createChain(p) ==
  /\ IsIdle(p)
  /\ Len(chains) < MaxChains
  /\ chains' = Append(chains,
       [_id |-> Len(chains) + 1, status |-> "editing", publishedBy |-> Null,
        publishedAt |-> NullDate, totalMilestones |-> 0,
        publishedMilestones |-> 0,
        editors |-> <<[user |-> Admin, lastEditedAt |-> DateAt(now)]>>])
  /\ Respond("createChain", 201, "Milestone chain created successfully", NoData)
  /\ reqs' = [reqs EXCEPT ![p] = Done(Idle, "createChain", Len(chains) + 1, 0)]
  /\ UNCHANGED milestones
  /\ ChainUnchanged

(***************************************************************************)
(* createMilestone, one step for each await.                               *)
(***************************************************************************)
\* requests that have still to insert their milestone
CreatesInFlight ==
  Cardinality({q \in Procs : /\ reqs[q].op = "createMilestone"
                             /\ reqs[q].pc \in {"cm_save_status", "cm_create"}})

\* a faulty variant of Unpublish that leaves the chain as it is
KeepStatus(chain, wasPublished) == chain

\* chain.status = 'editing' when the chain was published
Unpublish(chain, wasPublished) ==
  IF wasPublished THEN [chain EXCEPT !.status = "editing"] ELSE chain

\* MilestoneChain.findById(chainId); 404, or note wasPublished
cmFindChain(p, chainId, body) ==
  /\ IsIdle(p)
  /\ Len(milestones) + CreatesInFlight < MaxMilestones
  /\ IF ~Exists(chains, chainId)
     THEN /\ Respond("createMilestone", 404, "Milestone chain not found", NoData)
          /\ reqs' = [reqs EXCEPT ![p] = Done(Idle, "createMilestone", chainId, 0)]
     ELSE LET chain == chains[chainId]
              wasPublished == chain.status = "published"
          IN /\ reqs' = [reqs EXCEPT ![p] =
                  [Idle EXCEPT !.op = "createMilestone",
                               !.pc = IF wasPublished THEN "cm_save_status"
                                      ELSE "cm_create",
                               !.chainId = chainId,
                               !.body = body,
                               !.wasPublished = wasPublished,
                               !.chain = Unpublish(chain, wasPublished)]]
             /\ UNCHANGED resp
  /\ UNCHANGED <<chains, milestones>>
  /\ ChainUnchanged

\* await chain.save() of the status set back to 'editing'
cmSaveStatus(p) ==
  /\ At(p, "createMilestone", "cm_save_status")
  /\ chains' = [chains EXCEPT ![reqs[p].chainId].status = reqs[p].chain.status]
  /\ reqs' = [reqs EXCEPT ![p].pc = "cm_create"]
  /\ UNCHANGED <<milestones, resp>>
  /\ ChainUnchanged

\* the document Milestone.create builds: status 'draft'
NewMilestone(id, chainId, body) ==
  [_id |-> id, chainId |-> chainId, name |-> body.name, type |-> body.type,
   duration |-> body.duration, questions |-> body.questions,
   status |-> "draft", lastEditedBy |-> Null, publishedBy |-> Null,
   publishedAt |-> NullDate]

\* await Milestone.create(...); a validation error is caught: 500
cmCreate(p) ==
  /\ At(p, "createMilestone", "cm_create")
  /\ LET doc == NewMilestone(Len(milestones) + 1, reqs[p].chainId, reqs[p].body)
     IN IF ~ValidMilestone(doc)
        THEN /\ Respond("createMilestone", 500, "Failed to create milestone", NoData)
             /\ reqs' = [reqs EXCEPT ![p] =
                  Done(reqs[p], "createMilestone", reqs[p].chainId, 0)]
             /\ UNCHANGED milestones
        ELSE /\ milestones' = Append(milestones, doc)
             /\ reqs' = [reqs EXCEPT ![p].pc = "cm_save_total",
                                     ![p].milestoneId = doc._id,
                                     ![p].chain.totalMilestones = @ + 1]
             /\ UNCHANGED resp
  /\ UNCHANGED chains
  /\ ChainUnchanged

\* chain.totalMilestones += 1; await chain.save(); then the editor entry
cmSaveTotal(p) ==
  /\ At(p, "createMilestone", "cm_save_total")
  /\ chains' = [chains EXCEPT ![reqs[p].chainId].totalMilestones =
                                 reqs[p].chain.totalMilestones]
  /\ reqs' = [reqs EXCEPT ![p].pc = "cm_save_editors",
                          ![p].chain.editors = TrackEditor(@, Admin)]
  /\ UNCHANGED <<milestones, resp>>
  /\ ChainUnchanged

\* await chain.save() of the editors; 201 with requiresRepublish: wasPublished
cmSaveEditors(p) ==
  /\ At(p, "createMilestone", "cm_save_editors")
  /\ chains' = [chains EXCEPT ![reqs[p].chainId].editors = reqs[p].chain.editors]
  /\ Respond("createMilestone", 201,
             IF reqs[p].wasPublished
             THEN "Milestone created successfully. Chain has been unpublished - please republish to make changes visible to students."
             ELSE "Milestone created successfully",
             [requiresRepublish |-> reqs[p].wasPublished,
              chainStatus |-> reqs[p].chain.status])
  /\ reqs' = [reqs EXCEPT ![p] =
       Done(reqs[p], "createMilestone", reqs[p].chainId, reqs[p].milestoneId)]
  /\ UNCHANGED milestones
  /\ ChainUnchanged

(***************************************************************************)
(* updateMilestone, one step for each await.                               *)
(***************************************************************************)
\* Milestone.findById(milestoneId); 404 when there is none
umFindMilestone(p, milestoneId, updates) ==
  /\ IsIdle(p)
  /\ IF ~Exists(milestones, milestoneId)
     THEN /\ Respond("updateMilestone", 404, "Milestone not found", NoData)
          /\ reqs' = [reqs EXCEPT ![p] = Done(Idle, "updateMilestone", 0, milestoneId)]
     ELSE /\ reqs' = [reqs EXCEPT ![p] =
               [Idle EXCEPT !.op = "updateMilestone",
                            !.pc = "um_find_chain",
                            !.milestoneId = milestoneId,
                            !.chainId = milestones[milestoneId].chainId,
                            !.body = updates,
                            !.milestone = milestones[milestoneId]]]
          /\ UNCHANGED resp
  /\ UNCHANGED <<chains, milestones>>
  /\ ChainUnchanged

\* Object.assign(milestone, updates); milestone.lastEditedBy = req.user.id
AssignUpdates(milestone, updates) ==
  [milestone EXCEPT !.name = updates.name, !.lastEditedBy = Admin]

\* MilestoneChain.findById(milestone.chainId).  When the chain is published
\* the block that follows evaluates `const startDate = new Date(startDate)`:
\* the right-hand side reads the constant being declared, a ReferenceError,
\* which the handler's catch turns into 500.
umFindChain(p) ==
  /\ At(p, "updateMilestone", "um_find_chain")
  /\ LET chain == chains[reqs[p].chainId]
         wasPublished == chain.status = "published"
     IN IF wasPublished
        THEN /\ Respond("updateMilestone", 500, "Failed to update milestone", NoData)
             /\ reqs' = [reqs EXCEPT ![p] =
                  Done([reqs[p] EXCEPT !.wasPublished = wasPublished],
                       "updateMilestone", reqs[p].chainId, reqs[p].milestoneId)]
        ELSE /\ reqs' = [reqs EXCEPT
                  ![p].pc = "um_save_milestone",
                  ![p].wasPublished = wasPublished,
                  ![p].chain = chain,
                  ![p].milestone = AssignUpdates(@, reqs[p].body)]
             /\ UNCHANGED resp
  /\ UNCHANGED <<chains, milestones>>
  /\ ChainUnchanged

\* if (wasPublished) { status = 'editing'; publishedAt = null; publishedBy = null }
RevertToEditing(chain, wasPublished) ==
  IF wasPublished
  THEN [chain EXCEPT !.status = "editing", !.publishedAt = NullDate,
                     !.publishedBy = Null]
  ELSE chain

\* await milestone.save(); a validation error is caught: 500
umSaveMilestone(p) ==
  /\ At(p, "updateMilestone", "um_save_milestone")
  /\ IF ~ValidMilestone(reqs[p].milestone)
     THEN /\ Respond("updateMilestone", 500, "Failed to update milestone", NoData)
          /\ reqs' = [reqs EXCEPT ![p] =
               Done(reqs[p], "updateMilestone", reqs[p].chainId, reqs[p].milestoneId)]
          /\ UNCHANGED milestones
     ELSE /\ milestones' = [milestones EXCEPT
               ![reqs[p].milestoneId].name = reqs[p].milestone.name,
               ![reqs[p].milestoneId].lastEditedBy = reqs[p].milestone.lastEditedBy]
          /\ reqs' = [reqs EXCEPT
               ![p].pc = "um_save_chain",
               ![p].chain = [RevertToEditing(@, reqs[p].wasPublished)
                               EXCEPT !.editors = TrackEditor(@, Admin)]]
          /\ UNCHANGED resp
  /\ UNCHANGED chains
  /\ ChainUnchanged

\* await chain.save() writes the paths the handler set; 200
umSaveChain(p) ==
  /\ At(p, "updateMilestone", "um_save_chain")
  /\ chains' = [chains EXCEPT ![reqs[p].chainId] =
       IF reqs[p].wasPublished
       THEN [@ EXCEPT !.status = reqs[p].chain.status,
                      !.publishedAt = reqs[p].chain.publishedAt,
                      !.publishedBy = reqs[p].chain.publishedBy,
                      !.editors = reqs[p].chain.editors]
       ELSE [@ EXCEPT !.editors = reqs[p].chain.editors]]
  /\ Respond("updateMilestone", 200,
             IF reqs[p].wasPublished
             THEN "Milestone updated successfully. Chain has been unpublished - please republish to make changes visible to students."
             ELSE "Milestone updated successfully",
             [requiresRepublish |-> reqs[p].wasPublished,
              chainStatus |-> reqs[p].chain.status])
  /\ reqs' = [reqs EXCEPT ![p] =
       Done(reqs[p], "updateMilestone", reqs[p].chainId, reqs[p].milestoneId)]
  /\ UNCHANGED milestones
  /\ ChainUnchanged

(***************************************************************************)
(* publishChain, one step for each await.                                  *)
(***************************************************************************)
\* MilestoneChain.findById(chainId); 404, or 400 when already published
pcFindChain(p, chainId) ==
  /\ IsIdle(p)
  /\ IF ~Exists(chains, chainId)
     THEN /\ Respond("publishChain", 404, "Chain not found", NoData)
          /\ reqs' = [reqs EXCEPT ![p] = Done(Idle, "publishChain", chainId, 0)]
     ELSE IF chains[chainId].status = "published"
     THEN /\ Respond("publishChain", 400, "Chain is already published", NoData)
          /\ reqs' = [reqs EXCEPT ![p] = Done(Idle, "publishChain", chainId, 0)]
     ELSE /\ reqs' = [reqs EXCEPT ![p] =
               [Idle EXCEPT !.op = "publishChain",
                            !.pc = "pc_find_milestones",
                            !.chainId = chainId,
                            !.chain = chains[chainId]]]
          /\ UNCHANGED resp
  /\ UNCHANGED <<chains, milestones>>
  /\ ChainUnchanged

\* a faulty variant of IsEmptyChain that never finds a chain empty
NeverEmpty(found) == FALSE

\* milestones.length === 0
IsEmptyChain(found) == Cardinality(found) = 0

\* Milestone.find({ chainId }); 400 for an empty chain, else the chain is
\* marked published in memory
pcFindMilestones(p) ==
  /\ At(p, "publishChain", "pc_find_milestones")
  /\ LET found == MilestonesOf(reqs[p].chainId)
     IN IF IsEmptyChain(found)
        THEN /\ Respond("publishChain", 400,
                        "Cannot publish empty chain. Please add milestones first.",
                        NoData)
             /\ reqs' = [reqs EXCEPT ![p] =
                  Done(reqs[p], "publishChain", reqs[p].chainId, 0)]
        ELSE /\ reqs' = [reqs EXCEPT
                  ![p].pc = "pc_save",
                  ![p].count = Cardinality(found),
                  ![p].chain = [@ EXCEPT !.status = "published",
                                         !.publishedBy = Admin,
                                         !.publishedAt = DateAt(now),
                                         !.publishedMilestones = Cardinality(found)]]
             /\ UNCHANGED resp
  /\ UNCHANGED <<chains, milestones>>
  /\ ChainUnchanged

\* await chain.save() writes status, publishedBy, publishedAt, publishedMilestones
pcSave(p) ==
  /\ At(p, "publishChain", "pc_save")
  /\ chains' = [chains EXCEPT ![reqs[p].chainId] =
       [@ EXCEPT !.status = reqs[p].chain.status,
                 !.publishedBy = reqs[p].chain.publishedBy,
                 !.publishedAt = reqs[p].chain.publishedAt,
                 !.publishedMilestones = reqs[p].chain.publishedMilestones]]
  /\ reqs' = [reqs EXCEPT ![p].pc = "pc_update_many"]
  /\ UNCHANGED <<milestones, resp>>
  /\ ChainUnchanged

\* a faulty variant of UpdateMany that updates nothing
UpdateNone(coll, chainId) == coll

\* Milestone.updateMany({ chainId }, { status: 'published', ... })
UpdateMany(coll, chainId) ==
  [m \in DOMAIN coll |->
     IF coll[m].chainId = chainId
     THEN [coll[m] EXCEPT !.status = "published", !.publishedBy = Admin,
                          !.publishedAt = DateAt(now)]
     ELSE coll[m]]

\* await Milestone.updateMany(...); 200 with the chain
pcUpdateMany(p) ==
  /\ At(p, "publishChain", "pc_update_many")
  /\ milestones' = UpdateMany(milestones, reqs[p].chainId)
  /\ Respond("publishChain", 200, "Milestone chain published successfully",
             [requiresRepublish |-> FALSE, chainStatus |-> reqs[p].chain.status])
  /\ reqs' = [reqs EXCEPT ![p] = Done(reqs[p], "publishChain", reqs[p].chainId, 0)]
  /\ UNCHANGED chains
  /\ ChainUnchanged

\* await Milestone.updateMany(...) rejects: the catch answers 500
pcUpdateManyFails(p) ==
  /\ At(p, "publishChain", "pc_update_many")
  /\ Respond("publishChain", 500, "Failed to publish chain", NoData)
  /\ reqs' = [reqs EXCEPT ![p] = Done(reqs[p], "publishChain", reqs[p].chainId, 0)]
  /\ UNCHANGED <<chains, milestones>>
  /\ ChainUnchanged

(***************************************************************************)
(* The requests offered to the chain and milestone handlers.               *)
(***************************************************************************)
ChainIds == 1..MaxChains
MilestoneIds == 1..MaxMilestones
\* a body with the required fields, and one without a name
CreateBodies ==
  {[NoBody EXCEPT !.name = "M", !.type = "assignment"],
   [NoBody EXCEPT !.type = "assignment"]}
UpdateBodies == {[NoBody EXCEPT !.name = "N"], NoBody}

InitChain ==
  /\ examSchedule = NewExamSchedule(30)
  /\ resp = NoResp
  /\ chains = <<>>
  /\ milestones = <<>>
  /\ studentMilestones = <<>>
  /\ reqs = [p \in Procs |-> Idle]
  /\ now = 0
  /\ NoStores

\* one step of a request handled by process p
ChainStep(p) ==
  \/ createChain(p)
  \/ \E c \in ChainIds, b \in CreateBodies : cmFindChain(p, c, b)
  \/ cmSaveStatus(p)
  \/ cmCreate(p)
  \/ cmSaveTotal(p)
  \/ cmSaveEditors(p)
  \/ \E m \in MilestoneIds, b \in UpdateBodies : umFindMilestone(p, m, b)
  \/ umFindChain(p)
  \/ umSaveMilestone(p)
  \/ umSaveChain(p)
  \/ \E c \in ChainIds : pcFindChain(p, c)
  \/ pcFindMilestones(p)
  \/ pcSave(p)
  \/ pcUpdateMany(p)

\* requests served one after the other
NextChainSeq == ChainStep(1)
SpecChainSeq == InitChain /\ [][NextChainSeq]_vars

\* requests of two clients, interleaved at their awaits
NextChain == \E p \in Procs : ChainStep(p)
SpecChain == InitChain /\ [][NextChain]_vars

\* requests served one after the other, where Milestone.updateMany may reject
NextChainFail == ChainStep(1) \/ pcUpdateManyFails(1)
SpecChainFail == InitChain /\ [][NextChainFail]_vars

(***************************************************************************)
(* Properties of the chain publish workflow.                               *)
(***************************************************************************)
EmptyChainResponse ==
  [op |-> "publishChain", status |-> 400,
   msg |-> "Cannot publish empty chain. Please add milestones first.",
   data |-> NoData]

\* C2: when publishChain is called for a chain without milestones, the step
\* that finds no milestone answers 400 with the message "Cannot publish empty
\* chain. Please add milestones first.", the chain is still 'editing' and no
\* step of the call changes a chain or a milestone.
C2_EmptyChainRejected ==
  [][\A p \in Procs :
       LET r == reqs[p]
           r2 == reqs'[p]
       IN /\ (/\ At(p, "publishChain", "pc_find_milestones")
              /\ r2 # r
              /\ MilestonesOf(r.chainId) = {})
             => /\ resp' = EmptyChainResponse
                /\ r2.pc = "done"
                /\ chains' = chains
                /\ milestones' = milestones
                /\ chains'[r.chainId].status = "editing"
          /\ (/\ IsIdle(p)
              /\ r2.op = "publishChain"
              /\ MilestonesOf(r2.chainId) = {})
             => (chains' = chains /\ milestones' = milestones)]_vars

C2_Witness ==
  \E p \in Procs :
    /\ At(p, "publishChain", "done")
    /\ resp = EmptyChainResponse
    /\ Exists(chains, reqs[p].chainId)
    /\ chains[reqs[p].chainId].status = "editing"
    /\ MilestonesOf(reqs[p].chainId) = {}

\* C6: createMilestone notes whether the chain was published when it was
\* read; if it was, the chain is stored as 'editing' before the milestone is
\* inserted, the 201 response carries requiresRepublish true and the chain is
\* 'editing' after the call; if it was not, requiresRepublish is false and no
\* step of the call changes the chain's status.
C6_CreateUnpublishesFirst ==
  [][\A p \in Procs :
       LET r == reqs[p]
           r2 == reqs'[p]
       IN /\ (IsIdle(p) /\ r2.op = "createMilestone" /\ r2.pc # "done")
             => r2.wasPublished = (chains[r2.chainId].status = "published")
          /\ (At(p, "createMilestone", "cm_create") /\ r2.pc = "cm_save_total"
                /\ r.wasPublished)
             => (/\ chains[r.chainId].status = "editing"
                 /\ Len(milestones') = Len(milestones) + 1)
          /\ (r.op = "createMilestone" /\ r.pc # "done" /\ r2.pc = "done"
                /\ resp'.status = 201)
             => /\ resp'.data.requiresRepublish = r.wasPublished
                /\ r.wasPublished => chains'[r.chainId].status = "editing"
          /\ (r.op = "createMilestone" /\ r.pc # "done" /\ r2 # r
                /\ ~r.wasPublished)
             => chains'[r.chainId].status = chains[r.chainId].status]_vars

C6_Witness ==
  \E p \in Procs :
    /\ At(p, "createMilestone", "done")
    /\ reqs[p].wasPublished
    /\ resp.op = "createMilestone"
    /\ resp.status = 201
    /\ resp.data.requiresRepublish
    /\ chains[reqs[p].chainId].status = "editing"
    /\ milestones[reqs[p].milestoneId].status = "draft"

AlreadyPublishedResponse ==
  [op |-> "publishChain", status |-> 400, msg |-> "Chain is already published",
   data |-> NoData]

\* C7: the step that ends a successful publishChain leaves the chain
\* 'published' with publishedBy and publishedAt set and every milestone of
\* the chain 'published'; publishChain on a chain that is already published
\* answers 400 and changes no chain and no milestone.
C7_PublishCascades ==
  [][\A p \in Procs :
       LET r == reqs[p]
           r2 == reqs'[p]
       IN /\ (r.op = "publishChain" /\ r.pc # "done" /\ r2.pc = "done"
                /\ resp'.status = 200)
             => /\ chains'[r.chainId].status = "published"
                /\ chains'[r.chainId].publishedBy # Null
                /\ chains'[r.chainId].publishedAt.k = "date"
                /\ \A m \in DOMAIN milestones' :
                     milestones'[m].chainId = r.chainId
                       => milestones'[m].status = "published"
          /\ (/\ IsIdle(p)
              /\ r2.op = "publishChain"
              /\ \A q \in Procs \ {p} : reqs'[q] = reqs[q]
              /\ Exists(chains, r2.chainId)
              /\ chains[r2.chainId].status = "published")
             => /\ resp' = AlreadyPublishedResponse
                /\ r2.pc = "done"
                /\ chains' = chains
                /\ milestones' = milestones]_vars

C7_Witness ==
  \E p \in Procs :
    /\ At(p, "publishChain", "done")
    /\ resp.op = "publishChain"
    /\ resp.status = 200
    /\ chains[reqs[p].chainId].status = "published"
    /\ Cardinality(MilestonesOf(reqs[p].chainId)) = 2
    /\ \A m \in MilestonesOf(reqs[p].chainId) : milestones[m].status = "published"

\* C8: in every reachable state, the states between the awaits of interleaved
\* createMilestone, updateMilestone and publishChain requests included, a
\* chain with status 'published' has no milestone with status 'draft'.
C8_PublishedChainHasNoDraft ==
  \A c \in DOMAIN chains :
    chains[c].status = "published"
      => \A m \in MilestonesOf(c) : milestones[m].status # "draft"

\* C9: when the bulk update of the milestones fails after the chain was
\* saved, publishChain reports the failure and the chain is left 'editing'.
C9_FailedPublishLeavesEditing ==
  \A p \in Procs :
    (At(p, "publishChain", "done") /\ resp.op = "publishChain" /\ resp.status = 500)
      => chains[reqs[p].chainId].status = "editing"

\* C10: updateMilestone on a milestone of a published chain with a valid
\* patch answers 200 with requiresRepublish true, the milestone carries the
\* patch and the chain is 'editing'.
C10_UpdateOnPublishedSucceeds ==
  \A p \in Procs :
    (/\ At(p, "updateMilestone", "done")
     /\ reqs[p].wasPublished
     /\ ValidMilestone(reqs[p].body))
      => /\ resp.status = 200
         /\ resp.data.requiresRepublish
         /\ milestones[reqs[p].milestoneId].name = reqs[p].body.name
         /\ chains[reqs[p].chainId].status = "editing"

(***************************************************************************)
(* Student progress (studentMilestoneController.js).  The StudentMilestone *)
(* collection is a sequence of documents; the unique index on (student,    *)
(* milestone) rejects an insert of a pair that is already there.           *)
(***************************************************************************)
MaxTime == 2          \* the clock runs from 0 to MaxTime minutes
MaxSubmissions == 2   \* submissions pushed to one record
QuizDuration == 1     \* duration, in minutes, of the quiz the students take

Students == {"s1", "s2"}
Mentor == "m1"

\* the questions of the quiz, one point each
QuizQuestions ==
  <<[_id |-> 1, type |-> "multiple-choice", correctAnswer |-> "a", points |-> 1],
    [_id |-> 2, type |-> "true-false", correctAnswer |-> "true", points |-> 1]>>

NoStudentMilestone ==
  [_id |-> 0, student |-> "", milestone |-> 0, chainId |-> 0, status |-> "",
   startedAt |-> NullDate, attempts |-> 0, quizStartedAt |-> NullDate,
   quizSubmittedAt |-> NullDate, answers |-> <<>>, submissions |-> 0,
   score |-> Undefined, maxScore |-> Undefined, percentage |-> Undefined,
   autoGradedScore |-> Undefined, autoGradedPercentage |-> Undefined,
   gradedBy |-> Null, completedAt |-> NullDate]

NoGrade == [score |-> Undefined, maxScore |-> Undefined]

\* a student-side request process that is not handling a request
StudentIdle ==
  [op |-> "idle", pc |-> "idle", student |-> "", milestoneId |-> 0,
   submissionId |-> 0, answers |-> <<>>, grade |-> NoGrade,
   doc |-> NoStudentMilestone]

\* a process that has answered keeps the request it answered
StudentDone(r, op) ==
  [StudentIdle EXCEPT !.op = op, !.pc = "done", !.student = r.student,
                      !.milestoneId = r.milestoneId,
                      !.submissionId = r.submissionId]

StudentUnchanged ==
  /\ UNCHANGED <<examSchedule, chains, milestones>>
  /\ StoresUnchanged

\* StudentMilestone.findOne({ student, milestone }): index of the record, or 0
FindOne(coll, student, milestone) ==
  IF \E i \in DOMAIN coll : coll[i].student = student /\ coll[i].milestone = milestone
  THEN CHOOSE i \in DOMAIN coll :
         /\ coll[i].student = student /\ coll[i].milestone = milestone
         /\ \A j \in DOMAIN coll :
              (coll[j].student = student /\ coll[j].milestone = milestone) => i <= j
  ELSE 0

\* a faulty variant of DuplicateKey: a collection without the unique index
NoUniqueIndex(coll, student, milestone) == FALSE

\* the unique index { student: 1, milestone: 1 } rejects the insert (E11000)
DuplicateKey(coll, student, milestone) ==
  \E i \in DOMAIN coll : coll[i].student = student /\ coll[i].milestone = milestone

\* inserts that requests in flight have still to make
InsertsInFlight ==
  Cardinality({q \in DOMAIN reqs : reqs[q].pc \in {"sm_find_one", "sm_create",
                                                   "sa_find_one", "sa_create"}})
MaxRecords == 3       \* records in the StudentMilestone collection

\* StudentMilestone.create({ ..., status: 'in-progress', startedAt: new Date() })
NewStudentMilestone(id, student, milestone, attempts) ==
  [NoStudentMilestone EXCEPT
     !._id = id, !.student = student, !.milestone = milestone._id,
     !.chainId = milestone.chainId, !.status = "in-progress",
     !.startedAt = DateAt(now), !.attempts = attempts]

\* Milestone.findById(milestoneId): 404 unless it is there and published
smFindMilestone(p, student, milestoneId) ==
  /\ IsIdle(p)
  /\ Len(studentMilestones) + InsertsInFlight < MaxRecords
  /\ LET r == [StudentIdle EXCEPT !.op = "startMilestone", !.student = student,
                                  !.milestoneId = milestoneId]
     IN IF ~Exists(milestones, milestoneId)
           \/ milestones[milestoneId].status # "published"
        THEN /\ Respond("startMilestone", 404,
                        "Milestone not found or not published", NoStudentMilestone)
             /\ reqs' = [reqs EXCEPT ![p] = StudentDone(r, "startMilestone")]
        ELSE /\ reqs' = [reqs EXCEPT ![p] = [r EXCEPT !.pc = "sm_find_one"]]
             /\ UNCHANGED resp
  /\ UNCHANGED <<studentMilestones, now>>
  /\ StudentUnchanged

\* StudentMilestone.findOne: an existing record is returned as it is
smFindOne(p) ==
  /\ At(p, "startMilestone", "sm_find_one")
  /\ LET i == FindOne(studentMilestones, reqs[p].student, reqs[p].milestoneId)
     IN IF i # 0
        THEN /\ Respond("startMilestone", 200, "Milestone already started",
                        studentMilestones[i])
             /\ reqs' = [reqs EXCEPT ![p] =
                  StudentDone([reqs[p] EXCEPT !.submissionId = i], "startMilestone")]
        ELSE /\ reqs' = [reqs EXCEPT ![p].pc = "sm_create"]
             /\ UNCHANGED resp
  /\ UNCHANGED <<studentMilestones, now>>
  /\ StudentUnchanged

IsTimed(milestone) == milestone.type = "quiz" \/ milestone.type = "exam"

\* StudentMilestone.create; a duplicate key is caught: 500.  For a quiz or
\* an exam quizStartedAt is set and saved by the next await.
smCreate(p) ==
  /\ At(p, "startMilestone", "sm_create")
  /\ LET milestone == milestones[reqs[p].milestoneId]
         id == Len(studentMilestones) + 1
         doc == NewStudentMilestone(id, reqs[p].student, milestone, 1)
     IN IF DuplicateKey(studentMilestones, reqs[p].student, reqs[p].milestoneId)
        THEN /\ Respond("startMilestone", 500, "Failed to start milestone",
                        NoStudentMilestone)
             /\ reqs' = [reqs EXCEPT ![p] = StudentDone(reqs[p], "startMilestone")]
             /\ UNCHANGED studentMilestones
        ELSE /\ studentMilestones' = Append(studentMilestones, doc)
             /\ IF IsTimed(milestone)
                THEN /\ reqs' = [reqs EXCEPT
                          ![p].pc = "sm_save",
                          ![p].submissionId = id,
                          ![p].doc = [doc EXCEPT !.quizStartedAt = DateAt(now)]]
                     /\ UNCHANGED resp
                ELSE /\ Respond("startMilestone", 200,
                                "Milestone started successfully", doc)
                     /\ reqs' = [reqs EXCEPT ![p] =
                          StudentDone([reqs[p] EXCEPT !.submissionId = id],
                                      "startMilestone")]
  /\ UNCHANGED now
  /\ StudentUnchanged

\* await studentMilestone.save() of quizStartedAt; 200
smSave(p) ==
  /\ At(p, "startMilestone", "sm_save")
  /\ studentMilestones' = [studentMilestones EXCEPT
       ![reqs[p].submissionId].quizStartedAt = reqs[p].doc.quizStartedAt]
  /\ Respond("startMilestone", 200, "Milestone started successfully", reqs[p].doc)
  /\ reqs' = [reqs EXCEPT ![p] = StudentDone(reqs[p], "startMilestone")]
  /\ UNCHANGED now
  /\ StudentUnchanged

(***************************************************************************)
(* submitAssignment, one step for each await (no files are uploaded).      *)
(***************************************************************************)
\* submissions pushed so far, and those that requests in flight will push
RECURSIVE SubmissionCount(_, _)
SubmissionCount(coll, i) ==
  IF i > Len(coll) THEN 0 ELSE coll[i].submissions + SubmissionCount(coll, i + 1)
SubmissionsInFlight ==
  Cardinality({q \in DOMAIN reqs : reqs[q].op = "submitAssignment"
                                     /\ reqs[q].pc # "done"})

\* Milestone.findById: 400 unless it is there and an assignment
saFindMilestone(p, student, milestoneId) ==
  /\ IsIdle(p)
  /\ Len(studentMilestones) + InsertsInFlight < MaxRecords
  /\ SubmissionCount(studentMilestones, 1) + SubmissionsInFlight < MaxSubmissions
  /\ LET r == [StudentIdle EXCEPT !.op = "submitAssignment", !.student = student,
                                  !.milestoneId = milestoneId]
     IN IF ~Exists(milestones, milestoneId)
           \/ milestones[milestoneId].type # "assignment"
        THEN /\ Respond("submitAssignment", 400, "Invalid milestone type",
                        NoStudentMilestone)
             /\ reqs' = [reqs EXCEPT ![p] = StudentDone(r, "submitAssignment")]
        ELSE /\ reqs' = [reqs EXCEPT ![p] = [r EXCEPT !.pc = "sa_find_one"]]
             /\ UNCHANGED resp
  /\ UNCHANGED <<studentMilestones, now>>
  /\ StudentUnchanged

\* StudentMilestone.findOne: use the record, or go on to create one
saFindOne(p) ==
  /\ At(p, "submitAssignment", "sa_find_one")
  /\ LET i == FindOne(studentMilestones, reqs[p].student, reqs[p].milestoneId)
     IN reqs' = [reqs EXCEPT
          ![p].pc = IF i # 0 THEN "sa_save" ELSE "sa_create",
          ![p].submissionId = i,
          ![p].doc = IF i # 0 THEN studentMilestones[i] ELSE NoStudentMilestone]
  /\ UNCHANGED <<studentMilestones, resp, now>>
  /\ StudentUnchanged

\* StudentMilestone.create (attempts takes its default 0); duplicate key: 500
saCreate(p) ==
  /\ At(p, "submitAssignment", "sa_create")
  /\ LET milestone == milestones[reqs[p].milestoneId]
         id == Len(studentMilestones) + 1
         doc == NewStudentMilestone(id, reqs[p].student, milestone, 0)
     IN IF DuplicateKey(studentMilestones, reqs[p].student, reqs[p].milestoneId)
        THEN /\ Respond("submitAssignment", 500, "Failed to submit assignment",
                        NoStudentMilestone)
             /\ reqs' = [reqs EXCEPT ![p] = StudentDone(reqs[p], "submitAssignment")]
             /\ UNCHANGED studentMilestones
        ELSE /\ studentMilestones' = Append(studentMilestones, doc)
             /\ reqs' = [reqs EXCEPT ![p].pc = "sa_save",
                                     ![p].submissionId = id,
                                     ![p].doc = doc]
             /\ UNCHANGED resp
  /\ UNCHANGED now
  /\ StudentUnchanged

\* submissions.push(...); status = 'submitted'; await studentMilestone.save()
saSave(p) ==
  /\ At(p, "submitAssignment", "sa_save")
  /\ studentMilestones' = [studentMilestones EXCEPT
       ![reqs[p].submissionId].submissions = @ + 1,
       ![reqs[p].submissionId].status = "submitted"]
  /\ Respond("submitAssignment", 200, "Assignment submitted successfully",
             [reqs[p].doc EXCEPT !.submissions = @ + 1, !.status = "submitted"])
  /\ reqs' = [reqs EXCEPT ![p] = StudentDone(reqs[p], "submitAssignment")]
  /\ UNCHANGED now
  /\ StudentUnchanged

(***************************************************************************)
(* submitQuizAnswers, one step for each await.                             *)
(***************************************************************************)
\* new Date(d) as a number; an unset date gives NaN
DateNum(d) == IF d.k = "date" THEN J(d.v) ELSE NaN

\* (new Date() - new Date(quizStartedAt)) / (1000 * 60), in minutes
TimeElapsed(doc) == JsSub(J(now), DateNum(doc.quizStartedAt))

\* if (milestone.duration) ... timeElapsed > milestone.duration
TimeLimitExceeded(milestone, doc) ==
  milestone.duration # 0 /\ JsGt(TimeElapsed(doc), J(milestone.duration))

\* milestone.questions.id(questionId): index of the question, or 0
QuestionIndex(questions, id) ==
  IF \E i \in DOMAIN questions : questions[i]._id = id
  THEN CHOOSE i \in DOMAIN questions : questions[i]._id = id
  ELSE 0

\* the auto-grading loop: <<totalScore, maxScore, gradedAnswers>>
RECURSIVE GradeLoop(_, _, _, _, _, _)
GradeLoop(i, answers, questions, totalScore, maxScore, gradedAnswers) ==
  IF i > Len(answers) THEN <<totalScore, maxScore, gradedAnswers>>
  ELSE LET answer == answers[i]
           q == QuestionIndex(questions, answer.questionId)
       IN IF q = 0
          THEN GradeLoop(i + 1, answers, questions, totalScore, maxScore, gradedAnswers)
          ELSE LET question == questions[q]
                   auto == question.type \in {"multiple-choice", "true-false"}
                   isCorrect == auto /\ answer.answer = question.correctAnswer
                   points == IF isCorrect THEN question.points ELSE 0
               IN GradeLoop(i + 1, answers, questions, totalScore + points,
                            maxScore + question.points,
                            Append(gradedAnswers,
                                   [questionId |-> answer.questionId,
                                    answer |-> answer.answer,
                                    isCorrect |-> isCorrect, points |-> points]))

\* (score / maxScore) * 100; the scores offered here divide without remainder
Percentage(score, maxScore) ==
  IF IsNum(score) /\ IsNum(maxScore) /\ maxScore.v # 0
  THEN J((score.v * 100) \div maxScore.v)
  ELSE NaN

\* the record after auto-grading
Graded(doc, milestone, answers) ==
  LET g == GradeLoop(1, answers, milestone.questions, 0, 0, <<>>)
  IN [doc EXCEPT !.answers = g[3],
                 !.quizSubmittedAt = DateAt(now),
                 !.score = J(g[1]),
                 !.maxScore = J(g[2]),
                 !.percentage = Percentage(J(g[1]), J(g[2])),
                 !.status = "submitted",
                 !.autoGradedScore = J(g[1]),
                 !.autoGradedPercentage = Percentage(J(g[1]), J(g[2]))]

\* Milestone.findById: 400 unless it is there and a quiz or an exam
sqFindMilestone(p, student, milestoneId, answers) ==
  /\ IsIdle(p)
  /\ LET r == [StudentIdle EXCEPT !.op = "submitQuizAnswers", !.student = student,
                                  !.milestoneId = milestoneId, !.answers = answers]
     IN IF ~Exists(milestones, milestoneId) \/ ~IsTimed(milestones[milestoneId])
        THEN /\ Respond("submitQuizAnswers", 400, "Invalid milestone type",
                        NoStudentMilestone)
             /\ reqs' = [reqs EXCEPT ![p] = StudentDone(r, "submitQuizAnswers")]
        ELSE /\ reqs' = [reqs EXCEPT ![p] = [r EXCEPT !.pc = "sq_find_one"]]
             /\ UNCHANGED resp
  /\ UNCHANGED <<studentMilestones, now>>
  /\ StudentUnchanged

\* StudentMilestone.findOne: 400 when not started; then the time limit is
\* checked and the record is marked failed, or the answers are graded
sqFindOne(p) ==
  /\ At(p, "submitQuizAnswers", "sq_find_one")
  /\ LET i == FindOne(studentMilestones, reqs[p].student, reqs[p].milestoneId)
         milestone == milestones[reqs[p].milestoneId]
     IN IF i = 0
        THEN /\ Respond("submitQuizAnswers", 400, "Milestone not started",
                        NoStudentMilestone)
             /\ reqs' = [reqs EXCEPT ![p] = StudentDone(reqs[p], "submitQuizAnswers")]
        ELSE /\ reqs' = [reqs EXCEPT
                  ![p].submissionId = i,
                  ![p].pc = IF TimeLimitExceeded(milestone, studentMilestones[i])
                            THEN "sq_save_failed" ELSE "sq_save",
                  ![p].doc = IF TimeLimitExceeded(milestone, studentMilestones[i])
                             THEN [studentMilestones[i] EXCEPT !.status = "failed"]
                             ELSE Graded(studentMilestones[i], milestone,
                                         reqs[p].answers)]
             /\ UNCHANGED resp
  /\ UNCHANGED <<studentMilestones, now>>
  /\ StudentUnchanged

\* studentMilestone.status = 'failed'; await save(); 400 Time limit exceeded
sqSaveFailed(p) ==
  /\ At(p, "submitQuizAnswers", "sq_save_failed")
  /\ studentMilestones' = [studentMilestones EXCEPT
       ![reqs[p].submissionId].status = reqs[p].doc.status]
  /\ Respond("submitQuizAnswers", 400, "Time limit exceeded", NoStudentMilestone)
  /\ reqs' = [reqs EXCEPT ![p] = StudentDone(reqs[p], "submitQuizAnswers")]
  /\ UNCHANGED now
  /\ StudentUnchanged

\* await studentMilestone.save() of the graded answers; 200
sqSave(p) ==
  /\ At(p, "submitQuizAnswers", "sq_save")
  /\ studentMilestones' = [studentMilestones EXCEPT ![reqs[p].submissionId] =
       [@ EXCEPT !.answers = reqs[p].doc.answers,
                 !.quizSubmittedAt = reqs[p].doc.quizSubmittedAt,
                 !.score = reqs[p].doc.score,
                 !.maxScore = reqs[p].doc.maxScore,
                 !.percentage = reqs[p].doc.percentage,
                 !.status = reqs[p].doc.status,
                 !.autoGradedScore = reqs[p].doc.autoGradedScore,
                 !.autoGradedPercentage = reqs[p].doc.autoGradedPercentage]]
  /\ Respond("submitQuizAnswers", 200,
             IF milestones[reqs[p].milestoneId].type = "quiz"
             THEN "Quiz submitted successfully. Your mentor will review it soon."
             ELSE "Exam submitted successfully. Your mentor will review it soon.",
             [NoStudentMilestone EXCEPT !.status = "submitted"])
  /\ reqs' = [reqs EXCEPT ![p] = StudentDone(reqs[p], "submitQuizAnswers")]
  /\ UNCHANGED now
  /\ StudentUnchanged

(***************************************************************************)
(* gradeAssignment, one step for each await.                               *)
(***************************************************************************)
\* StudentMilestone.findById(submissionId): 404 when there is none
gaFind(p, submissionId, grade) ==
  /\ IsIdle(p)
  /\ LET r == [StudentIdle EXCEPT !.op = "gradeAssignment",
                                  !.submissionId = submissionId, !.grade = grade]
     IN IF ~Exists(studentMilestones, submissionId)
        THEN /\ Respond("gradeAssignment", 404, "Submission not found",
                        NoStudentMilestone)
             /\ reqs' = [reqs EXCEPT ![p] = StudentDone(r, "gradeAssignment")]
        ELSE /\ reqs' = [reqs EXCEPT ![p] =
                  [r EXCEPT !.pc = "ga_save",
                            !.doc = [studentMilestones[submissionId] EXCEPT
                               !.score = grade.score,
                               !.maxScore = grade.maxScore,
                               !.percentage = Percentage(grade.score, grade.maxScore),
                               !.gradedBy = Mentor,
                               !.status = "completed",
                               !.completedAt = DateAt(now)]]]
             /\ UNCHANGED resp
  /\ UNCHANGED <<studentMilestones, now>>
  /\ StudentUnchanged

\* await studentMilestone.save() of the grade; 200
gaSave(p) ==
  /\ At(p, "gradeAssignment", "ga_save")
  /\ studentMilestones' = [studentMilestones EXCEPT ![reqs[p].submissionId] =
       [@ EXCEPT !.score = reqs[p].doc.score,
                 !.maxScore = reqs[p].doc.maxScore,
                 !.percentage = reqs[p].doc.percentage,
                 !.gradedBy = reqs[p].doc.gradedBy,
                 !.status = reqs[p].doc.status,
                 !.completedAt = reqs[p].doc.completedAt]]
  /\ Respond("gradeAssignment", 200, "Assignment graded successfully", reqs[p].doc)
  /\ reqs' = [reqs EXCEPT ![p] = StudentDone(reqs[p], "gradeAssignment")]
  /\ UNCHANGED now
  /\ StudentUnchanged

\* a minute passes
Tick ==
  /\ now < MaxTime
  /\ now' = now + 1
  /\ UNCHANGED <<studentMilestones, resp, reqs>>
  /\ StudentUnchanged

(***************************************************************************)
(* The requests offered to the student handlers, and the published chain   *)
(* the students work on: a timed quiz and an assignment.                   *)
(***************************************************************************)
AnswerSheets ==
  {<<[questionId |-> 1, answer |-> "a"], [questionId |-> 2, answer |-> "true"]>>,
   <<[questionId |-> 1, answer |-> "a"], [questionId |-> 2, answer |-> "false"]>>}
GradeBodies == {[score |-> J(5), maxScore |-> J(10)]}
SubmissionIds == 1..2

PublishedMilestone(id, name, type, duration, questions) ==
  [NewMilestone(id, 1, [name |-> name, type |-> type, duration |-> duration,
                        questions |-> questions])
     EXCEPT !.status = "published", !.publishedBy = Admin,
            !.publishedAt = DateAt(0)]

InitStudent ==
  /\ examSchedule = NewExamSchedule(30)
  /\ resp = NoResp
  /\ chains = <<[_id |-> 1, status |-> "published", publishedBy |-> Admin,
                 publishedAt |-> DateAt(0), totalMilestones |-> 2,
                 publishedMilestones |-> 2,
                 editors |-> <<[user |-> Admin, lastEditedAt |-> DateAt(0)]>>]>>
  /\ milestones = <<PublishedMilestone(1, "Quiz", "quiz", QuizDuration, QuizQuestions),
                    PublishedMilestone(2, "Essay", "assignment", 0, <<>>)>>
  /\ studentMilestones = <<>>
  /\ reqs = [p \in Procs |-> StudentIdle]
  /\ now = 0
  /\ NoStores

\* one step of a startMilestone or submitAssignment request that process p
\* handles for one of the given students
EnrolStep(p, students) ==
  \/ \E s \in students, m \in MilestoneIds : smFindMilestone(p, s, m)
  \/ smFindOne(p)
  \/ smCreate(p)
  \/ smSave(p)
  \/ \E s \in students, m \in MilestoneIds : saFindMilestone(p, s, m)
  \/ saFindOne(p)
  \/ saCreate(p)
  \/ saSave(p)

\* one step of a request that process p handles for student s1 or the mentor
StudentStep(p) ==
  \/ EnrolStep(p, {"s1"})
  \/ \E s \in {"s1"}, m \in MilestoneIds, a \in AnswerSheets :
       sqFindMilestone(p, s, m, a)
  \/ sqFindOne(p)
  \/ sqSaveFailed(p)
  \/ sqSave(p)
  \/ \E i \in SubmissionIds, g \in GradeBodies : gaFind(p, i, g)
  \/ gaSave(p)

\* requests served one after the other
NextStudentSeq == StudentStep(1) \/ Tick
SpecStudentSeq == InitStudent /\ [][NextStudentSeq]_vars

\* startMilestone and submitAssignment requests of two clients, interleaved
\* at their awaits; neither handler reads the clock, which stands still
NextStudent == \E p \in Procs : EnrolStep(p, Students)
SpecStudent == InitStudent /\ [][NextStudent]_vars

(***************************************************************************)
(* Properties of the student progress engine.                              *)
(***************************************************************************)
SamePair(a, b) == a.student = b.student /\ a.milestone = b.milestone

\* C3: the StudentMilestone collection never holds two records of one
\* (student, milestone) pair, whatever the interleaving of startMilestone
\* and submitAssignment requests; and a startMilestone that finds the record
\* of its pair answers 200 with that record and writes nothing.
C3_OneRecordPerPair ==
  /\ [](\A i, j \in DOMAIN studentMilestones :
          SamePair(studentMilestones[i], studentMilestones[j]) => i = j)
  /\ [][\A p \in Procs :
          LET i == FindOne(studentMilestones, reqs[p].student, reqs[p].milestoneId)
          IN (At(p, "startMilestone", "sm_find_one") /\ reqs'[p] # reqs[p] /\ i # 0)
             => /\ studentMilestones' = studentMilestones
                /\ resp' = [op |-> "startMilestone", status |-> 200,
                            msg |-> "Milestone already started",
                            data |-> studentMilestones[i]]
                /\ reqs'[p].pc = "done"]_vars

\* a startMilestone and a submitAssignment of one pair have raced: one of
\* them inserted the record and the other was rejected by the unique index
C3_Witness ==
  \E p, q \in Procs :
    /\ At(p, "startMilestone", "done")
    /\ At(q, "submitAssignment", "done")
    /\ reqs[p].student = reqs[q].student
    /\ reqs[p].milestoneId = reqs[q].milestoneId
    /\ resp.status = 500
    /\ FindOne(studentMilestones, reqs[p].student, reqs[p].milestoneId) # 0

\* C4: a submitQuizAnswers whose check finds more than milestone.duration
\* minutes elapsed since quizStartedAt goes on to fail the record, and when
\* it has answered, the answer is the 400 error, the record's status is
\* 'failed' and its score and percentage are not set, whatever the record
\* held before the call.
C4_LateSubmissionFailsWithoutScore ==
  [][\A p \in Procs :
       LET r == reqs[p]
           r2 == reqs'[p]
           i == FindOne(studentMilestones, r.student, r.milestoneId)
       IN /\ (/\ At(p, "submitQuizAnswers", "sq_find_one")
              /\ r2 # r
              /\ i # 0
              /\ TimeLimitExceeded(milestones[r.milestoneId], studentMilestones[i]))
             => r2.pc = "sq_save_failed"
          /\ (At(p, "submitQuizAnswers", "sq_save_failed") /\ r2.pc = "done")
             => /\ resp'.status = 400
                /\ resp'.msg = "Time limit exceeded"
                /\ studentMilestones'[r.submissionId].status = "failed"
                /\ studentMilestones'[r.submissionId].score = Undefined
                /\ studentMilestones'[r.submissionId].percentage = Undefined]_vars

\* C11: the record of a quiz or exam milestone becomes 'completed' only by
\* the save of a gradeAssignment, and only from status 'submitted': never
\* from 'not-started', 'in-progress' or 'failed'.
C11_CompletedOnlyFromSubmitted ==
  [][\A i \in DOMAIN studentMilestones :
       (/\ IsTimed(milestones[studentMilestones[i].milestone])
        /\ studentMilestones'[i].status = "completed"
        /\ studentMilestones[i].status # "completed")
       => /\ studentMilestones[i].status = "submitted"
          /\ \E p \in Procs : /\ At(p, "gradeAssignment", "ga_save")
                              /\ reqs[p].submissionId = i
                              /\ reqs'[p].pc = "done"]_vars

(***************************************************************************)
(* randomDistributeTeams over the listings the database may hold.          *)
(***************************************************************************)
MaxTeams == 15       \* teams in the Team collection
MaxMentors == 3      \* approved mentors in the User collection

TeamPool ==
  <<"t1", "t2", "t3", "t4", "t5", "t6", "t7", "t8", "t9", "t10", "t11", "t12",
    "t13", "t14", "t15", "t16", "t17">>
MentorPool == <<"m1", "m2", "m3", "m4", "m5">>
\* the first n elements of a pool
Listing(pool, n) == [i \in 1..n |-> pool[i]]

DistributeDurations == {30, 260, 530}

InitDistribute ==
  /\ \E d \in DistributeDurations : examSchedule = NewExamSchedule(d)
  /\ resp = NoResp
  /\ chains = <<>>
  /\ milestones = <<>>
  /\ studentMilestones = <<>>
  /\ reqs = <<>>
  /\ now = 0
  /\ NoStores

NextDistribute ==
  \E n \in 0..MaxTeams, m \in 0..MaxMentors :
    randomDistributeTeams(Listing(TeamPool, n), Listing(MentorPool, m))

SpecDistribute == InitDistribute /\ [][NextDistribute]_vars

InPeriod(doc, slot) ==
  doc.startDate <= slot.scheduledDate /\ slot.scheduledDate <= doc.endDate

\* C14: every slot's scheduledDate lies within the schedule's
\* [startDate, endDate] after any sequence of slot operations.
C14_SlotDatesWithinPeriod ==
  \A i \in DOMAIN examSchedule.slots : InPeriod(examSchedule, examSchedule.slots[i])

(***************************************************************************)
(* Statistics of the stored schedule.                                      *)
(***************************************************************************)
\* the slots of doc whose status is st
WithStatus(doc, st) == {i \in DOMAIN doc.slots : doc.slots[i].status = st}
\* the slots of doc that hold no team
WithoutTeam(doc) == {i \in DOMAIN doc.slots : doc.slots[i].team = Null}

\* C15: the stored statistics equal the counts taken from the stored slot
\* list (all slots, those 'scheduled', those 'completed', those without a
\* team), after every operation, deleteSlot of the last slot included.
C15_StatisticsMatchSlots ==
  /\ examSchedule.statistics.totalSlots = Len(examSchedule.slots)
  /\ examSchedule.statistics.scheduledSlots = Cardinality(WithStatus(examSchedule, "scheduled"))
  /\ examSchedule.statistics.completedSlots = Cardinality(WithStatus(examSchedule, "completed"))
  /\ examSchedule.statistics.pendingSlots = Cardinality(WithoutTeam(examSchedule))

(***************************************************************************)
(* deleteChain and deleteMilestone, one step for each await.               *)
(***************************************************************************)
\* a faulty variant of HasSubmissions that never finds a record
NoSubmissions(coll, field, id) == FALSE

\* StudentMilestone.exists({ field: id })
HasSubmissions(coll, field, id) == \E i \in DOMAIN coll : coll[i][field] = id

\* findByIdAndDelete / deleteMany: the documents with these ids are gone
DeleteDocs(coll, ids) ==
  [i \in DOMAIN coll |-> IF i \in ids THEN [coll[i] EXCEPT !.status = Deleted] ELSE coll[i]]

\* StudentMilestone.exists({ chainId }): 400 when a record is found
dcExists(p, chainId) ==
  /\ IsIdle(p)
  /\ LET r == [Idle EXCEPT !.op = "deleteChain", !.chainId = chainId]
     IN IF HasSubmissions(studentMilestones, "chainId", chainId)
        THEN /\ Respond("deleteChain", 400,
                        "Cannot delete chain with student submissions. Archive it instead.",
                        NoData)
             /\ reqs' = [reqs EXCEPT ![p] = Done(r, "deleteChain", chainId, 0)]
        ELSE /\ reqs' = [reqs EXCEPT ![p] = [r EXCEPT !.pc = "dc_delete_many"]]
             /\ UNCHANGED resp
  /\ UNCHANGED <<chains, milestones>>
  /\ ChainUnchanged

\* await Milestone.deleteMany({ chainId })
dcDeleteMany(p) ==
  /\ At(p, "deleteChain", "dc_delete_many")
  /\ milestones' = DeleteDocs(milestones, MilestonesOf(reqs[p].chainId))
  /\ reqs' = [reqs EXCEPT ![p].pc = "dc_delete_chain"]
  /\ UNCHANGED <<chains, resp>>
  /\ ChainUnchanged

\* await MilestoneChain.findByIdAndDelete(chainId); 200
dcDeleteChain(p) ==
  /\ At(p, "deleteChain", "dc_delete_chain")
  /\ chains' = DeleteDocs(chains, {reqs[p].chainId})
  /\ Respond("deleteChain", 200, "Chain and all milestones deleted successfully", NoData)
  /\ reqs' = [reqs EXCEPT ![p] = Done(reqs[p], "deleteChain", reqs[p].chainId, 0)]
  /\ UNCHANGED milestones
  /\ ChainUnchanged

\* Milestone.findById(milestoneId); 404 when it is not there
dmFindMilestone(p, milestoneId) ==
  /\ IsIdle(p)
  /\ LET r == [Idle EXCEPT !.op = "deleteMilestone", !.milestoneId = milestoneId]
     IN IF ~Exists(milestones, milestoneId)
        THEN /\ Respond("deleteMilestone", 404, "Milestone not found", NoData)
             /\ reqs' = [reqs EXCEPT ![p] = Done(r, "deleteMilestone", 0, milestoneId)]
        ELSE /\ reqs' = [reqs EXCEPT ![p] =
                  [r EXCEPT !.pc = "dm_find_chain",
                            !.chainId = milestones[milestoneId].chainId,
                            !.milestone = milestones[milestoneId]]]
             /\ UNCHANGED resp
  /\ UNCHANGED <<chains, milestones>>
  /\ ChainUnchanged

\* MilestoneChain.findById(milestone.chainId); chain.status of a chain that
\* is gone throws (500); a published chain: 400
dmFindChain(p) ==
  /\ At(p, "deleteMilestone", "dm_find_chain")
  /\ LET r == reqs[p]
     IN IF ~Exists(chains, r.chainId)
        THEN /\ Respond("deleteMilestone", 500, "Failed to delete milestone", NoData)
             /\ reqs' = [reqs EXCEPT ![p] =
                  Done(r, "deleteMilestone", r.chainId, r.milestoneId)]
        ELSE IF chains[r.chainId].status = "published"
        THEN /\ Respond("deleteMilestone", 400,
                        "Cannot delete milestones from published chain", NoData)
             /\ reqs' = [reqs EXCEPT ![p] =
                  Done(r, "deleteMilestone", r.chainId, r.milestoneId)]
        ELSE /\ reqs' = [reqs EXCEPT ![p].pc = "dm_exists",
                                     ![p].chain = chains[r.chainId]]
             /\ UNCHANGED resp
  /\ UNCHANGED <<chains, milestones>>
  /\ ChainUnchanged

\* StudentMilestone.exists({ milestone: milestoneId }): 400 when a record is found
dmExists(p) ==
  /\ At(p, "deleteMilestone", "dm_exists")
  /\ LET r == reqs[p]
     IN IF HasSubmissions(studentMilestones, "milestone", r.milestoneId)
        THEN /\ Respond("deleteMilestone", 400,
                        "Cannot delete milestone with student submissions", NoData)
             /\ reqs' = [reqs EXCEPT ![p] =
                  Done(r, "deleteMilestone", r.chainId, r.milestoneId)]
        ELSE /\ reqs' = [reqs EXCEPT ![p].pc = "dm_delete"]
             /\ UNCHANGED resp
  /\ UNCHANGED <<chains, milestones>>
  /\ ChainUnchanged

\* await Milestone.findByIdAndDelete(milestoneId); chain.totalMilestones -= 1
dmDelete(p) ==
  /\ At(p, "deleteMilestone", "dm_delete")
  /\ milestones' = DeleteDocs(milestones, {reqs[p].milestoneId})
  /\ reqs' = [reqs EXCEPT ![p].pc = "dm_save", ![p].chain.totalMilestones = @ - 1]
  /\ UNCHANGED <<chains, resp>>
  /\ ChainUnchanged

\* await chain.save(): the save of a chain that is gone is rejected (500); 200
dmSave(p) ==
  /\ At(p, "deleteMilestone", "dm_save")
  /\ LET r == reqs[p]
     IN IF ~Exists(chains, r.chainId)
        THEN /\ Respond("deleteMilestone", 500, "Failed to delete milestone", NoData)
             /\ UNCHANGED chains
        ELSE /\ chains' = [chains EXCEPT ![r.chainId].totalMilestones =
                                          r.chain.totalMilestones]
             /\ Respond("deleteMilestone", 200, "Milestone deleted successfully", NoData)
  /\ reqs' = [reqs EXCEPT ![p] =
       Done(reqs[p], "deleteMilestone", reqs[p].chainId, reqs[p].milestoneId)]
  /\ UNCHANGED milestones
  /\ ChainUnchanged

(***************************************************************************)
(* Deletion beside the students' requests.  The chain of InitStudent, as   *)
(* published or set back to 'editing' by a milestone that was added to it  *)
(* and deleted again; deleteMilestone acts only on a chain in 'editing'.   *)
(***************************************************************************)
InitDelete ==
  /\ examSchedule = NewExamSchedule(30)
  /\ resp = NoResp
  /\ \E st \in {"published", "editing"} :
       chains = <<[_id |-> 1, status |-> st, publishedBy |-> Admin,
                   publishedAt |-> DateAt(0), totalMilestones |-> 2,
                   publishedMilestones |-> 2,
                   editors |-> <<[user |-> Admin, lastEditedAt |-> DateAt(0)]>>]>>
  /\ milestones = <<PublishedMilestone(1, "Quiz", "quiz", QuizDuration, QuizQuestions),
                    PublishedMilestone(2, "Essay", "assignment", 0, <<>>)>>
  /\ studentMilestones = <<>>
  /\ reqs = [p \in Procs |-> Idle]
  /\ now = 0
  /\ NoStores

\* one step of a deleteChain or deleteMilestone request that process p handles
DeleteStep(p) ==
  \/ \E c \in ChainIds : dcExists(p, c)
  \/ dcDeleteMany(p)
  \/ dcDeleteChain(p)
  \/ \E m \in MilestoneIds : dmFindMilestone(p, m)
  \/ dmFindChain(p)
  \/ dmExists(p)
  \/ dmDelete(p)
  \/ dmSave(p)

\* one request at a time
NextDeleteSeq == EnrolStep(1, {"s1"}) \/ DeleteStep(1)

SpecDeleteSeq == InitDelete /\ [][NextDeleteSeq]_vars

\* requests of a student and of an admin handled side by side
NextDelete == \E p \in Procs : EnrolStep(p, {"s1"}) \/ DeleteStep(p)

SpecDelete == InitDelete /\ [][NextDelete]_vars

\* some StudentMilestone record refers to a milestone of the chain
Referenced(chainId) ==
  \E i \in DOMAIN studentMilestones : studentMilestones[i].milestone \in MilestonesOf(chainId)

\* C16: deleteChain answers with an error and deletes nothing when a
\* StudentMilestone record refers to one of the chain's milestones; otherwise
\* it goes on to delete the chain's milestones and then the chain, and when
\* it has answered neither the chain nor a milestone with its chainId is left.
C16_DeleteChainAllOrNothing ==
  [][\A p \in Procs, c \in ChainIds :
       /\ (dcExists(p, c) /\ Referenced(c))
            => /\ reqs'[p].pc = "done"
               /\ resp'.status >= 400
               /\ UNCHANGED <<chains, milestones>>
       /\ (dcExists(p, c) /\ ~Referenced(c)) => reqs'[p].pc = "dc_delete_many"
       /\ (At(p, "deleteChain", "dc_delete_chain") /\ reqs[p].chainId = c
           /\ reqs'[p].pc = "done")
            => /\ MilestonesOf(c) = {}
               /\ resp'.status = 200
               /\ ~Exists(chains', c)
               /\ \A m \in DOMAIN milestones' :
                    milestones'[m].chainId = c => ~Exists(milestones', m)]_vars

\* a deleteChain request has deleted chain 1 and both of its milestones
C16_Witness ==
  /\ resp.op = "deleteChain" /\ resp.status = 200
  /\ \E p \in Procs : At(p, "deleteChain", "done") /\ reqs[p].chainId = 1
  /\ chains[1].status = Deleted
  /\ milestones[1].status = Deleted /\ milestones[2].status = Deleted

\* C17: every StudentMilestone record refers to a milestone that still
\* exists, in every interleaving of a student's startMilestone or
\* submitAssignment with an admin's deleteMilestone or deleteChain.
C17_RecordsKeepTheirMilestone ==
  \A i \in DOMAIN studentMilestones :
    Exists(milestones, studentMilestones[i].milestone)

(***************************************************************************)
(* getMilestonesByChain: the listing of a chain's milestones.              *)
(***************************************************************************)
MaxListed == 3        \* milestones in the listed chain

\* a milestone with the schema's startDate, endDate and order
Dated(doc, startDate, endDate, order) ==
  [f \in DOMAIN doc \cup {"startDate", "endDate", "order"} |->
     IF f = "startDate" THEN DateAt(startDate)
     ELSE IF f = "endDate" THEN DateAt(endDate)
     ELSE IF f = "order" THEN order
     ELSE doc[f]]

\* .sort({ order: 1 }): the ids by ascending order
RECURSIVE SortByOrder(_)
SortByOrder(ids) ==
  IF ids = {} THEN <<>>
  ELSE LET first == CHOOSE m \in ids :
                      \A n \in ids : milestones[m].order <= milestones[n].order
       IN <<first>> \o SortByOrder(ids \ {first})

\* a faulty variant of IsPast for which no milestone has ended
NeverPast(milestone) == FALSE

\* new Date(milestone.endDate) < now
IsPast(milestone) == milestone.endDate.v < now
\* new Date(milestone.startDate) <= now && new Date(milestone.endDate) >= now
IsCurrent(milestone) == milestone.startDate.v <= now /\ milestone.endDate.v >= now

\* studentMilestones.find(sm => sm.milestone === milestone._id): its status, or ""
StudentProgress(records, milestoneId) ==
  IF \E i \in records : studentMilestones[i].milestone = milestoneId
  THEN studentMilestones[CHOOSE i \in records :
         /\ studentMilestones[i].milestone = milestoneId
         /\ \A j \in records : studentMilestones[j].milestone = milestoneId => i <= j].status
  ELSE ""

\* the loop over the sorted milestones; i counts from 1, the code's from 0
RECURSIVE VisibleLoop(_, _, _, _, _)
VisibleLoop(sorted, i, records, completedMilestoneIds, visibleMilestones) ==
  IF i > Len(sorted) THEN visibleMilestones
  ELSE LET milestone == milestones[sorted[i]]
           isPast == IsPast(milestone)
           isCurrent == IsCurrent(milestone)
           isCompleted == milestone._id \in completedMilestoneIds
       IN IF isPast \/ isCurrent \/ i - 1 = Len(visibleMilestones)
          THEN LET pushed == Append(visibleMilestones,
                      [milestone |-> milestone,
                       isLocked |-> ~isPast /\ ~isCurrent /\ ~isCompleted,
                       studentProgress |-> StudentProgress(records, milestone._id)])
               IN IF ~isPast /\ ~isCurrent THEN pushed
                  ELSE VisibleLoop(sorted, i + 1, records, completedMilestoneIds, pushed)
          ELSE VisibleLoop(sorted, i + 1, records, completedMilestoneIds,
                           visibleMilestones)

\* a read-only handler: both finds see the same stored documents
getMilestonesByChain(role, user, chainId) ==
  /\ LET found == {m \in MilestonesOf(chainId) :
                     role \in {"student", "mentor"} => milestones[m].status = "published"}
         sorted == SortByOrder(found)
         records == {i \in DOMAIN studentMilestones :
                       /\ studentMilestones[i].student = user
                       /\ studentMilestones[i].chainId = chainId}
         completedMilestoneIds ==
           {studentMilestones[i].milestone : i \in
              {j \in records : studentMilestones[j].status = "completed"}}
         visibleMilestones ==
           VisibleLoop(sorted, 1, records, completedMilestoneIds, <<>>)
     IN IF role = "student"
        THEN Respond("getMilestonesByChain", 200, "",
                     [count |-> Len(visibleMilestones), milestones |-> visibleMilestones])
        ELSE Respond("getMilestonesByChain", 200, "",
                     [count |-> Len(sorted),
                      milestones |-> [i \in DOMAIN sorted |->
                                        [milestone |-> milestones[sorted[i]]]]])
  /\ UNCHANGED <<examSchedule, chains, milestones, studentMilestones, reqs, now>>
  /\ StoresUnchanged

Roles == {"student", "mentor", "admin"}
ListedDates == {0, MaxTime}
ProgressStates == {"", "in-progress", "completed"}

\* the records student s1 holds: one for each milestone with a status in progress
ProgressRecords(progress) ==
  LET started == SelectSeq([i \in 1..MaxListed |-> i], LAMBDA i : progress[i] # "")
  IN [k \in DOMAIN started |->
        [NoStudentMilestone EXCEPT
           !._id = k, !.student = "s1", !.milestone = started[k], !.chainId = 1,
           !.status = progress[started[k]], !.startedAt = DateAt(0), !.attempts = 1]]

\* a chain of MaxListed milestones, drafts and published ones, with any dates
\* (the schema requires both dates and does not compare them) and the order
\* indices ascending or descending against the ids
InitListing ==
  /\ examSchedule = NewExamSchedule(30)
  /\ resp = NoResp
  /\ now \in {0, 1}
  /\ NoStores
  /\ chains = <<[_id |-> 1, status |-> "published", publishedBy |-> Admin,
                 publishedAt |-> DateAt(0), totalMilestones |-> MaxListed,
                 publishedMilestones |-> MaxListed,
                 editors |-> <<[user |-> Admin, lastEditedAt |-> DateAt(0)]>>]>>
  /\ \E status \in [1..MaxListed -> {"draft", "published"}],
        startDate \in [1..MaxListed -> ListedDates],
        endDate \in [1..MaxListed -> ListedDates],
        descending \in BOOLEAN :
       milestones = [i \in 1..MaxListed |->
         Dated([NewMilestone(i, 1, [name |-> "M", type |-> "assignment", duration |-> 0,
                                    questions |-> <<>>])
                  EXCEPT !.status = status[i]],
               startDate[i], endDate[i],
               IF descending THEN MaxListed + 1 - i ELSE i)]
  /\ \E progress \in [1..MaxListed -> ProgressStates] :
       studentMilestones = ProgressRecords(progress)
  /\ reqs = [p \in Procs |-> Idle]

NextListing == \E role \in Roles : getMilestonesByChain(role, "s1", 1)

SpecListing == InitListing /\ [][NextListing]_vars

\* the student holds a completed record of the milestone
HasCompleted(student, milestoneId) ==
  \E i \in DOMAIN studentMilestones :
    /\ studentMilestones[i].student = student
    /\ studentMilestones[i].milestone = milestoneId
    /\ studentMilestones[i].status = "completed"

\* the milestone has not ended and has not begun: neither past nor current
Upcoming(milestone) ==
  /\ ~(milestone.endDate.v < now)
  /\ ~(milestone.startDate.v <= now /\ milestone.endDate.v >= now)

\* published milestones only, in ascending order index, with at most one
\* upcoming milestone and that one last
ListedPublishedInOrder(list) ==
  /\ \A i \in DOMAIN list : list[i].milestone.status = "published"
  /\ \A i, j \in DOMAIN list :
       i < j => list[i].milestone.order < list[j].milestone.order
  /\ \A i \in DOMAIN list : Upcoming(list[i].milestone) => i = Len(list)

InitEarly ==
  /\ examSchedule = NewExamSchedule(30)
  /\ resp = NoResp
  /\ now = 0
  /\ NoStores
  /\ \E status \in [1..2 -> {"draft", "published"}], startDate \in [1..2 -> {0, MaxTime}] :
       /\ chains = <<[_id |-> 1,
                      status |-> IF \A i \in 1..2 : status[i] = "published"
                                 THEN "published" ELSE "editing",
                      publishedBy |-> Admin, publishedAt |-> DateAt(0),
                      totalMilestones |-> 2, publishedMilestones |-> 2,
                      editors |-> <<[user |-> Admin, lastEditedAt |-> DateAt(0)]>>]>>
       /\ milestones =
            <<Dated([PublishedMilestone(1, "Quiz", "quiz", QuizDuration, QuizQuestions)
                       EXCEPT !.status = status[1]], startDate[1], MaxTime, 1),
              Dated([PublishedMilestone(2, "Essay", "assignment", 0, <<>>)
                       EXCEPT !.status = status[2]], startDate[2], MaxTime, 2)>>
  /\ studentMilestones = <<>>
  /\ reqs = [p \in Procs |-> StudentIdle]

\* startMilestone, submitAssignment and submitQuizAnswers of student s1, one
\* request at a time, and the clock
NextEarly ==
  \/ EnrolStep(1, {"s1"})
  \/ \E m \in MilestoneIds, a \in AnswerSheets : sqFindMilestone(1, "s1", m, a)
  \/ sqFindOne(1)
  \/ sqSaveFailed(1)
  \/ sqSave(1)
  \/ Tick

SpecEarly == InitEarly /\ [][NextEarly]_vars

\* the milestone is published and has begun
Open(milestone) == milestone.status = "published" /\ milestone.startDate.v <= now

\* C19: startMilestone, submitAssignment and submitQuizAnswers create or
\* change a StudentMilestone record only for a milestone that is published
\* and whose startDate is not in the future.
C19_NoEarlyAction ==
  [][studentMilestones' # studentMilestones
     => \A p \in Procs :
          (/\ reqs[p].op \in {"startMilestone", "submitAssignment", "submitQuizAnswers"}
           /\ ~IsIdle(p))
          => Open(milestones[reqs[p].milestoneId])]_vars

(***************************************************************************)
(* Content moderation.  A string is a sequence of characters.              *)
(***************************************************************************)
MaxLen == 3           \* characters in a comment or in a post title
MaxDescription == 1   \* characters in a post description

Alphabet == {"d", "D", "i", "e"}

\* String.prototype.toLowerCase on the characters in use
LowerChar(c) == IF c = "D" THEN "d" ELSE c
ToLowerCase(s) == [i \in DOMAIN s |-> LowerChar(s[i])]

\* String.prototype.includes
Includes(s, keyword) ==
  \E i \in 0..(Len(s) - Len(keyword)) : SubSeq(s, i + 1, i + Len(keyword)) = keyword

harmfulKeywords ==
  {<<"k", "i", "l", "l">>, <<"m", "u", "r", "d", "e", "r">>,
   <<"s", "u", "i", "c", "i", "d", "e">>, <<"b", "o", "m", "b">>,
   <<"t", "e", "r", "r", "o", "r", "i", "s", "t">>, <<"r", "a", "p", "e">>,
   <<"a", "s", "s", "a", "u", "l", "t">>,
   <<"v", "i", "o", "l", "e", "n", "c", "e">>,
   <<"w", "e", "a", "p", "o", "n">>, <<"d", "r", "u", "g">>,
   <<"c", "o", "c", "a", "i", "n", "e">>, <<"h", "e", "r", "o", "i", "n">>,
   <<"h", "u", "r", "t">>, <<"h", "a", "r", "m">>, <<"h", "a", "t", "e">>,
   <<"d", "i", "s", "c", "r", "i", "m", "i", "n", "a", "t">>,
   <<"d", "u", "m", "b">>,
   <<"s", "t", "u", "p", "i", "d", " ", "i", "d", "i", "o", "t">>,
   <<"g", "e", "t", " ", "l", "o", "s", "t">>, <<"k", "y", "s">>,
   <<"d", "i", "e">>,
   <<"d", "e", "a", "t", "h", " ", "t", "h", "r", "e", "a", "t">>,
   <<"b", "e", "a", "t", " ", "u", "p">>, <<"a", "t", "t", "a", "c", "k">>}

\* harmfulKeywords.some(keyword => content.includes(keyword))
ContainsHarmful(content) == \E keyword \in harmfulKeywords : Includes(content, keyword)

\* \b: a word character on one side only; every character but the space is one
IsWordChar(s, i) == i \in DOMAIN s /\ s[i] # " "
\* contentLower.match(/\b(w1|w2|...)\b/)
MatchesWord(s, words) ==
  \E w \in words : \E i \in 0..(Len(s) - Len(w)) :
    /\ SubSeq(s, i + 1, i + Len(w)) = w
    /\ IsWordChar(s, i) # IsWordChar(s, i + 1)
    /\ IsWordChar(s, i + Len(w)) # IsWordChar(s, i + Len(w) + 1)

ViolenceWords ==
  {<<"k", "i", "l", "l">>, <<"m", "u", "r", "d", "e", "r">>,
   <<"h", "u", "r", "t">>, <<"h", "a", "r", "m">>,
   <<"v", "i", "o", "l", "e", "n", "c", "e">>,
   <<"a", "t", "t", "a", "c", "k">>, <<"b", "e", "a", "t", " ", "u", "p">>,
   <<"d", "e", "a", "t", "h", " ", "t", "h", "r", "e", "a", "t">>}
HateWords ==
  {<<"h", "a", "t", "e">>,
   <<"d", "i", "s", "c", "r", "i", "m", "i", "n", "a", "t">>}
BullyingWords ==
  {<<"d", "u", "m", "b">>, <<"s", "t", "u", "p", "i", "d">>,
   <<"i", "d", "i", "o", "t">>, <<"g", "e", "t", " ", "l", "o", "s", "t">>}
SelfHarmWords ==
  {<<"s", "u", "i", "c", "i", "d", "e">>, <<"k", "y", "s">>,
   <<"d", "i", "e">>}
IllegalWords ==
  {<<"d", "r", "u", "g">>, <<"c", "o", "c", "a", "i", "n", "e">>,
   <<"h", "e", "r", "o", "i", "n">>, <<"w", "e", "a", "p", "o", "n">>,
   <<"b", "o", "m", "b">>, <<"t", "e", "r", "r", "o", "r", "i", "s", "t">>}

getImprovementSuggestion(content) ==
  LET contentLower == ToLowerCase(content)
  IN IF MatchesWord(contentLower, ViolenceWords)
     THEN "Please rephrase without violent or threatening language. Express your concerns constructively."
     ELSE IF MatchesWord(contentLower, HateWords)
     THEN "Please use respectful language. Focus on discussing ideas rather than expressing hatred toward groups or individuals."
     ELSE IF MatchesWord(contentLower, BullyingWords)
     THEN "Please be respectful to others. Try rephrasing your feedback constructively without insulting language."
     ELSE IF MatchesWord(contentLower, SelfHarmWords)
     THEN "If you're struggling, please reach out to a counselor or support service. This forum is for educational discussions."
     ELSE IF MatchesWord(contentLower, IllegalWords)
     THEN "This platform is for educational purposes only. Please keep discussions focused on learning and academic topics."
     ELSE "Please revise your content to follow our community guidelines. Keep discussions respectful, constructive, and educational."

\* what model.generateContent does: it throws, or it answers with a text, bare
\* or inside a markdown fence (plain or marked json), whose body is JSON with
\* isAllowed true or false, JSON without isAllowed, or no JSON at all
Bodies == {"allowed", "refused", "empty object", "not json"}
Fences == {"none", "fence", "json fence"}
Outcomes ==
  {[throws |-> TRUE, fence |-> "none", body |-> ""]}
  \cup {[throws |-> FALSE, fence |-> f, body |-> b] : f \in Fences, b \in Bodies}

\* JSON.parse of the text between the fences throws on a body that is no JSON
ParseThrows(outcome) == outcome.body = "not json"

\* isAllowed: moderationResult.isAllowed === true; reason: moderationResult.reason or an empty string
Verdict(outcome) ==
  [isAllowed |-> outcome.body = "allowed",
   reason |-> IF outcome.body = "refused" THEN "reason given by the model" ELSE "",
   suggestion |-> "undefined"]

\* the catch block: the keyword check on the lower-cased content
BackupFilter(contentLower, what) ==
  IF ContainsHarmful(contentLower)
  THEN [isAllowed |-> FALSE,
        reason |-> what \o " contains potentially harmful content",
        suggestion |-> getImprovementSuggestion(contentLower)]
  ELSE [isAllowed |-> TRUE, reason |-> "", suggestion |-> ""]

\* the result both functions return for the content they are given
Moderate(content, what, apiKey, outcome) ==
  IF ~apiKey THEN [isAllowed |-> TRUE, reason |-> "", suggestion |-> "undefined"]
  ELSE IF outcome.throws \/ ParseThrows(outcome)
  THEN BackupFilter(ToLowerCase(content), what)
  ELSE Verdict(outcome)

\* a call of one of the two functions, waiting (pc "verify") or answered
Moderation(op, pc, title, description, content, apiKey, outcome) ==
  [op |-> op, pc |-> pc, title |-> title, description |-> description,
   content |-> content, apiKey |-> apiKey, outcome |-> outcome]

ModerationUnchanged ==
  /\ UNCHANGED <<examSchedule, chains, milestones, studentMilestones, now>>
  /\ StoresUnchanged

verifyPostContent(p) ==
  /\ At(p, "verifyPostContent", "verify")
  /\ LET combinedContent == reqs[p].title \o <<" ">> \o reqs[p].description
     IN /\ Respond("verifyPostContent", 0, "",
                   Moderate(combinedContent, "Post", reqs[p].apiKey, reqs[p].outcome))
        /\ reqs' = [reqs EXCEPT ![p].pc = "done", ![p].content = combinedContent]
  /\ ModerationUnchanged

verifyCommentContent(p) ==
  /\ At(p, "verifyCommentContent", "verify")
  /\ Respond("verifyCommentContent", 0, "",
             Moderate(reqs[p].content, "Comment", reqs[p].apiKey, reqs[p].outcome))
  /\ reqs' = [reqs EXCEPT ![p].pc = "done"]
  /\ ModerationUnchanged

\* the strings of at most n characters
Strings(n) == UNION {[1..k -> Alphabet] : k \in 0..n}

\* a post or a comment to moderate, the key set or not, and what the call
\* of the language model will do
InitModeration ==
  /\ examSchedule = NewExamSchedule(30)
  /\ resp = NoResp
  /\ chains = <<>>
  /\ milestones = <<>>
  /\ studentMilestones = <<>>
  /\ now = 0
  /\ NoStores
  /\ \E apiKey \in BOOLEAN, outcome \in Outcomes :
       \/ \E title \in Strings(MaxLen), description \in Strings(MaxDescription) :
            reqs = [p \in Procs |->
                      IF p = 1
                      THEN Moderation("verifyPostContent", "verify", title, description,
                                      <<>>, apiKey, outcome)
                      ELSE Idle]
       \/ \E content \in Strings(MaxLen) :
            reqs = [p \in Procs |->
                      IF p = 1
                      THEN Moderation("verifyCommentContent", "verify", <<>>, <<>>,
                                      content, apiKey, outcome)
                      ELSE Idle]

NextModeration == verifyPostContent(1) \/ verifyCommentContent(1)

SpecModeration == InitModeration /\ [][NextModeration]_vars

\* no verdict of the language model: no key, a failed call, or a text that
\* does not parse
Unavailable(r) == ~r.apiKey \/ r.outcome.throws \/ ParseThrows(r.outcome)

\* C20: whenever the language model's verdict is unavailable,
\* verifyPostContent and verifyCommentContent return the keyword verdict:
\* isAllowed is false when the lower-cased content contains a blocklist
\* keyword and true otherwise.
C20_FallsBackToKeywords ==
  \A p \in Procs :
    (/\ reqs[p].op \in {"verifyPostContent", "verifyCommentContent"}
     /\ reqs[p].pc = "done"
     /\ Unavailable(reqs[p]))
    => (resp.data.isAllowed <=> ~ContainsHarmful(ToLowerCase(reqs[p].content)))

(***************************************************************************)
(* Slots and the mentors who own them.                                     *)
(***************************************************************************)
\* a schedule that allows mentors to reschedule or does not
InitOwn ==
  /\ \E allow \in BOOLEAN :
       examSchedule = [NewExamSchedule(30) EXCEPT !.allowMentorReschedule = allow]
  /\ resp = NoResp
  /\ chains = <<>>
  /\ milestones = <<>>
  /\ studentMilestones = <<>>
  /\ reqs = <<>>
  /\ now = 0
  /\ NoStores

\* slots assigned to the mentors, and the mentors' requests on them
NextOwn ==
  \/ \E m \in Mentors : manualAssignTeam(m, TeamList[1], 1, <<10, 0>>, 0)
  \/ \E u \in Mentors, id \in LegacySlotIds(examSchedule) \cup {0}, d \in Days,
        tm \in ManualTimes :
       rescheduleSlot(u, id, d, tm)
  \/ \E u \in Mentors, id \in LegacySlotIds(examSchedule) \cup {0}, sc \in Scores :
       completeExamSlot(u, id, sc, "good")

SpecOwn == InitOwn /\ [][NextOwn]_vars

\* the step leaves every slot but the one at index i as it was
OnlySlotChanges(i) ==
  /\ Len(examSchedule'.slots) = Len(examSchedule.slots)
  /\ \A j \in DOMAIN examSchedule.slots :
       j # i => examSchedule'.slots[j] = examSchedule.slots[j]

\* the slot exists and belongs to the mentor
MayTouch(user, slotId) ==
  LET i == SlotIndex(examSchedule.slots, slotId)
  IN i # 0 /\ examSchedule.slots[i].mentor = user

\* C21: rescheduleSlot and completeExamSlot change a slot only for its own
\* mentor (rescheduleSlot only with allowMentorReschedule and a date within
\* the period); otherwise they answer with an error and leave the schedule
\* as it was, and on success only the addressed slot changes.
C21_OnlyOwnSlot ==
  [][\A u \in Mentors, id \in LegacySlotIds(examSchedule) \cup {0} :
       /\ \A d \in Days, tm \in ManualTimes :
            rescheduleSlot(u, id, d, tm)
            => IF /\ MayTouch(u, id)
                  /\ examSchedule.allowMentorReschedule
                  /\ examSchedule.startDate <= d /\ d <= examSchedule.endDate
               THEN /\ resp'.status = 200
                    /\ OnlySlotChanges(SlotIndex(examSchedule.slots, id))
               ELSE resp'.status >= 400 /\ UNCHANGED examSchedule
       /\ \A sc \in Scores :
            completeExamSlot(u, id, sc, "good")
            => IF MayTouch(u, id)
               THEN /\ resp'.status = 200
                    /\ OnlySlotChanges(SlotIndex(examSchedule.slots, id))
               ELSE resp'.status >= 400 /\ UNCHANGED examSchedule]_vars

\* a mentor has completed their own slot beside a slot of another mentor
C21_Witness ==
  /\ resp.op = "completeExamSlot" /\ resp.status = 200
  /\ Len(examSchedule.slots) = 2
  /\ examSchedule.slots[1].mentor # examSchedule.slots[2].mentor
  /\ examSchedule.slots[1].status = "completed"
  /\ examSchedule.slots[2].status = "scheduled"

(***************************************************************************)
(* The slots a per-mentor distribution creates.                            *)
(***************************************************************************)
\* the teams held by some slot of the schedule, legacy or per-mentor
SlottedTeams(doc) == {TeamAt(doc, p) : p \in SlotPlaces(doc)} \ {Null}

IsGraded(doc) == doc.status = "completed" /\ doc.gradedBy # Null

\* C23: once gradeAssignment has set a record to 'completed', no step of
\* startMilestone, submitAssignment or submitQuizAnswers changes the record's
\* status, score, maxScore or percentage.
C23_GradingIsFinal ==
  [][(~\E p \in Procs : At(p, "gradeAssignment", "ga_save"))
     => \A i \in DOMAIN studentMilestones :
          IsGraded(studentMilestones[i])
          => /\ studentMilestones'[i].status = studentMilestones[i].status
             /\ studentMilestones'[i].score = studentMilestones[i].score
             /\ studentMilestones'[i].maxScore = studentMilestones[i].maxScore
             /\ studentMilestones'[i].percentage = studentMilestones[i].percentage]_vars

(***************************************************************************)
(* The one-time passwords of utils/emailService: otpStore maps an          *)
(* identifier to the code, its expiry and the wrong guesses made so far.   *)
(* storeOTP and verifyOTP are synchronous, so each call is one step.  The  *)
(* clock counts minutes.  For each identifier reqs keeps the history the   *)
(* properties speak of: the code and time of the last storeOTP and the     *)
(* verifyOTP calls made since.                                             *)
(***************************************************************************)
OtpLifetime == 5     \* 5 * 60 * 1000 ms
MaxClock == 6        \* the clock stops one minute after the first expiry
MaxVerify == 4       \* verifyOTP calls offered per stored code

Identifiers == {"a@x", "reset_a@x"}

\* generateOTP gives a string of six digits; a request body may carry the
\* same digits as a JSON number
Str(n) == [k |-> "str", v |-> n]
NoOtp == [k |-> "none", v |-> 0]
OtpCodes == {Str(111111), Str(222222)}
OtpInputs == OtpCodes \cup {J(111111)}

MapSet(m, key, value) ==
  [x \in DOMAIN m \cup {key} |-> IF x = key THEN value ELSE m[x]]
MapDelete(m, key) == [x \in DOMAIN m \ {key} |-> m[x]]

NoHistory == [otp |-> NoOtp, storedAt |-> 0, calls |-> 0, wrong |-> 0, ok |-> 0]

OtpUnchanged ==
  UNCHANGED <<examSchedule, chains, milestones, studentMilestones, users,
              events, teamDocs>>

\* otpStore.set(identifier, { otp, expiresAt: Date.now() + 5 min, attempts: 0 })
StoredOtp(otp, t) == [otp |-> otp, expiresAt |-> t + OtpLifetime, attempts |-> 0]

storeOTP(identifier, otp) ==
  /\ otpStore' = MapSet(otpStore, identifier, StoredOtp(otp, now))
  /\ resp' = [op |-> "storeOTP", status |-> 0, msg |-> "",
              data |-> [success |-> TRUE, identifier |-> identifier, otp |-> otp]]
  /\ reqs' = [reqs EXCEPT ![identifier] =
                [otp |-> otp, storedAt |-> now, calls |-> 0, wrong |-> 0, ok |-> 0]]
  /\ UNCHANGED now
  /\ OtpUnchanged

NeverExpired(stored, t) == FALSE
NoAttemptLimit(stored) == FALSE

\* Date.now() > stored.expiresAt
IsExpired(stored, t) == t > stored.expiresAt
\* stored.attempts >= 3
TooManyAttempts(stored) == stored.attempts >= 3

\* what verifyOTP returns and what it leaves in otpStore
VerifyOutcome(store, identifier, inputOtp, t) ==
  IF identifier \notin DOMAIN store
  THEN [success |-> FALSE, message |-> "OTP not found or expired", store |-> store]
  ELSE LET stored == store[identifier]
       IN IF IsExpired(stored, t)
          THEN [success |-> FALSE, message |-> "OTP has expired",
                store |-> MapDelete(store, identifier)]
          ELSE IF TooManyAttempts(stored)
          THEN [success |-> FALSE, message |-> "Too many failed attempts",
                store |-> MapDelete(store, identifier)]
          ELSE IF stored.otp # inputOtp
          THEN [success |-> FALSE, message |-> "Invalid OTP",
                store |-> [store EXCEPT ![identifier].attempts = @ + 1]]
          ELSE [success |-> TRUE, message |-> "OTP verified successfully",
                store |-> MapDelete(store, identifier)]

verifyOTP(identifier, inputOtp) ==
  /\ reqs[identifier].calls < MaxVerify
  /\ LET r == VerifyOutcome(otpStore, identifier, inputOtp, now)
         h == reqs[identifier]
     IN /\ otpStore' = r.store
        /\ resp' = [op |-> "verifyOTP", status |-> 0, msg |-> r.message,
                    data |-> [success |-> r.success, identifier |-> identifier,
                              otp |-> inputOtp]]
        /\ reqs' = [reqs EXCEPT ![identifier] =
                      [h EXCEPT !.calls = @ + 1,
                                !.wrong = IF inputOtp # h.otp THEN @ + 1 ELSE @,
                                !.ok = IF r.success THEN @ + 1 ELSE @]]
  /\ UNCHANGED now
  /\ OtpUnchanged

\* a minute passes
AdvanceClock ==
  /\ now < MaxClock
  /\ now' = now + 1
  /\ UNCHANGED <<otpStore, resp, reqs>>
  /\ OtpUnchanged

InitOtp ==
  /\ examSchedule = NewExamSchedule(30)
  /\ resp = NoResp
  /\ chains = <<>>
  /\ milestones = <<>>
  /\ studentMilestones = <<>>
  /\ reqs = [id \in Identifiers |-> NoHistory]
  /\ now = 0
  /\ NoStores

NextOtp ==
  \/ \E id \in Identifiers, otp \in OtpCodes : storeOTP(id, otp)
  \/ \E id \in Identifiers, otp \in OtpInputs : verifyOTP(id, otp)
  \/ AdvanceClock

SpecOtp == InitOtp /\ [][NextOtp]_vars

\* C24: once three verifyOTP calls with a wrong code have been made for an
\* identifier since its last storeOTP, every further verifyOTP call for it
\* fails, whatever code it carries; and no stored entry ever counts more
\* than three wrong guesses.
C24_ThreeWrongGuessesLock ==
  /\ [][\A id \in Identifiers, input \in OtpInputs :
          (/\ verifyOTP(id, input)
           /\ reqs[id].otp # NoOtp
           /\ reqs[id].wrong >= 3) => ~resp'.data.success]_vars
  /\ [](\A id \in DOMAIN otpStore : otpStore[id].attempts <= 3)

\* three wrong guesses, then the stored code itself, in time, refused
C24_Witness ==
  /\ resp.op = "verifyOTP"
  /\ resp.msg = "Too many failed attempts"
  /\ LET h == reqs[resp.data.identifier]
     IN /\ h.wrong = 3
        /\ h.calls = 4
        /\ resp.data.otp = h.otp
        /\ now <= h.storedAt + OtpLifetime

\* C25: a verifyOTP call succeeds only with the code of the last storeOTP for
\* its identifier, only within five minutes of that storeOTP, only if no
\* call has succeeded since; it removes the entry, and the verifyOTP call
\* right after a success fails for the same identifier.
C25_SingleUseTimeBoxed ==
  [][\A id \in Identifiers, input \in OtpInputs :
       verifyOTP(id, input) =>
         /\ resp'.data.success =>
              /\ input = reqs[id].otp
              /\ now <= reqs[id].storedAt + OtpLifetime
              /\ reqs[id].ok = 0
              /\ id \notin DOMAIN otpStore'
         /\ (/\ resp.op = "verifyOTP"
             /\ resp.data.success
             /\ resp.data.identifier = id) => ~resp'.data.success]_vars

\* a success followed at once by the same code for the same identifier
C25_Witness ==
  /\ resp.op = "verifyOTP"
  /\ ~resp.data.success
  /\ resp.msg = "OTP not found or expired"
  /\ LET h == reqs[resp.data.identifier]
     IN /\ h.ok = 1
        /\ h.calls = 2
        /\ h.wrong = 0
        /\ resp.data.otp = h.otp

(***************************************************************************)
(* Accounts.  users maps an email to the User document; a token is the id  *)
(* of the user it was signed for.  The password-reset endpoints of the OTP *)
(* controller are taken one call at a time; reqs records for each email    *)
(* whether a verifyResetOTP call for it has succeeded so far.              *)
(***************************************************************************)
Emails == {"a@x", "b@x"}
NoEmail == ""
EmailInputs == Emails \cup {NoEmail}
PasswordInputs == {"secret7", "hunter22", "abc", ""}

\* the pre-save hook stores bcrypt.hash(password); comparePassword compares
Hash(password) == "hash:" \o password
ComparePassword(user, candidate) == user.password = Hash(candidate)

\* User.create(userData) with the schema defaults
NewUser(email, password, role, approvalStatus) ==
  [email |-> email, phone |-> "phone:" \o email, password |-> Hash(password),
   role |-> role, approvalStatus |-> approvalStatus, isVerified |-> TRUE,
   isActive |-> TRUE, lastLogin |-> NullDate]

ResetId(email) == "reset_" \o email
LoginId(email) == "login_" \o email

AccountUnchanged ==
  UNCHANGED <<examSchedule, chains, milestones, studentMilestones, events,
              teamDocs>>

AccountRespond(op, status, msg, token) ==
  resp' = [op |-> op, status |-> status, msg |-> msg, data |-> [token |-> token]]

\* sendResetOTP: the code is stored before the mail is sent
sendResetOTP(email, otp, sent) ==
  /\ IF email = NoEmail
     THEN /\ AccountRespond("sendResetOTP", 400, "Email is required", Null)
          /\ UNCHANGED otpStore
     ELSE IF email \notin DOMAIN users
     THEN /\ AccountRespond("sendResetOTP", 404, "No account found with this email", Null)
          /\ UNCHANGED otpStore
     ELSE /\ otpStore' = MapSet(otpStore, ResetId(email), StoredOtp(otp, now))
          /\ IF sent
             THEN AccountRespond("sendResetOTP", 200,
                                 "Password reset OTP sent to your email", Null)
             ELSE AccountRespond("sendResetOTP", 500,
                                 "Error sending password reset OTP", Null)
  /\ UNCHANGED <<users, reqs, now>>
  /\ AccountUnchanged

verifyResetOTP(email, otp) ==
  /\ IF email = NoEmail \/ otp = Undefined
     THEN /\ AccountRespond("verifyResetOTP", 400, "Email and OTP are required", Null)
          /\ UNCHANGED <<otpStore, reqs>>
     ELSE LET result == VerifyOutcome(otpStore, ResetId(email), otp, now)
          IN /\ otpStore' = result.store
             /\ IF result.success
                THEN /\ AccountRespond("verifyResetOTP", 200,
                          "OTP verified successfully. You can now reset your password.",
                          Null)
                     /\ reqs' = [reqs EXCEPT ![email].verified = TRUE]
                ELSE /\ AccountRespond("verifyResetOTP", 400, result.message, Null)
                     /\ UNCHANGED reqs
  /\ UNCHANGED <<users, now>>
  /\ AccountUnchanged

resetPassword(email, newPassword) ==
  /\ IF email = NoEmail \/ newPassword = ""
     THEN /\ AccountRespond("resetPassword", 400,
                            "Email and new password are required", Null)
          /\ UNCHANGED users
     ELSE IF Len(newPassword) < 6
     THEN /\ AccountRespond("resetPassword", 400,
                            "Password must be at least 6 characters", Null)
          /\ UNCHANGED users
     ELSE IF email \notin DOMAIN users
     THEN /\ AccountRespond("resetPassword", 404, "User not found", Null)
          /\ UNCHANGED users
     ELSE /\ users' = [users EXCEPT ![email].password = Hash(newPassword)]
          /\ AccountRespond("resetPassword", 200,
               "Password reset successfully. You can now login with your new password.",
               Null)
  /\ UNCHANGED <<otpStore, reqs, now>>
  /\ AccountUnchanged

InitReset ==
  /\ examSchedule = NewExamSchedule(30)
  /\ resp = NoResp
  /\ chains = <<>>
  /\ milestones = <<>>
  /\ studentMilestones = <<>>
  /\ reqs = [e \in Emails |-> [verified |-> FALSE]]
  /\ now = 0
  /\ otpStore = <<>>
  /\ users = [e \in {"a@x"} |-> NewUser(e, "oldpass1", "student", "approved")]
  /\ events = <<>>
  /\ teamDocs = <<>>

NextReset ==
  \/ \E e \in EmailInputs, otp \in OtpCodes, sent \in BOOLEAN :
       sendResetOTP(e, otp, sent)
  \/ \E e \in EmailInputs, otp \in OtpInputs \cup {Undefined} : verifyResetOTP(e, otp)
  \/ \E e \in EmailInputs, pw \in PasswordInputs : resetPassword(e, pw)

SpecReset == InitReset /\ [][NextReset]_vars

\* C26: a resetPassword call changes the password of the user with its email
\* only if a verifyResetOTP call for that email has succeeded before it.
C26_ResetOnlyAfterVerification ==
  [][\A e \in Emails, pw \in PasswordInputs :
       (/\ resetPassword(e, pw)
        /\ e \in DOMAIN users
        /\ users'[e].password # users[e].password) => reqs[e].verified]_vars

(***************************************************************************)
(* The operations that issue a token: signup, login and verifyLoginOTP,    *)
(* with the admin's approveUser and rejectUser.  A user's phone is derived *)
(* from the email, so the email-or-phone lookups of signup and login find  *)
(* the same document by either.                                            *)
(***************************************************************************)
RoleInputs == {"", "student", "mentor", "admin"}
SignupPasswords == {"secret7"}

\* User.findOne({ $or: [{ email: x }, { phone: x }] }): the email, or Null
FindByEmailOrPhone(coll, x) ==
  IF \E e \in DOMAIN coll : coll[e].email = x \/ coll[e].phone = x
  THEN CHOOSE e \in DOMAIN coll : coll[e].email = x \/ coll[e].phone = x
  ELSE Null

\* generateToken(user._id): the token names the user it was signed for
generateToken(userId) == userId

NeedsApproval(user) ==
  (user.role = "student" \/ user.role = "mentor") /\ user.approvalStatus # "approved"

signup(email, password, role) ==
  /\ IF email \in DOMAIN users
     THEN /\ AccountRespond("signup", 400,
                            "User with this email or phone already exists", Null)
          /\ UNCHANGED users
     ELSE IF role # "" /\ role \notin {"student", "mentor"}
     THEN /\ AccountRespond("signup", 400,
               "Invalid role. Only student and mentor roles are allowed for signup",
               Null)
          /\ UNCHANGED users
     ELSE /\ users' = MapSet(users, email,
                        NewUser(email, password,
                                IF role = "" THEN "student" ELSE role, "pending"))
          /\ AccountRespond("signup", 201,
                            "Registration successful! Please wait for admin approval.",
                            generateToken(email))
  /\ UNCHANGED <<otpStore, reqs, now>>
  /\ AccountUnchanged

login(emailOrPhone, password, role) ==
  /\ LET id == FindByEmailOrPhone(users, emailOrPhone)
     IN IF emailOrPhone = "" \/ password = ""
        THEN /\ AccountRespond("login", 400,
                               "Please provide email/phone and password", Null)
             /\ UNCHANGED users
        ELSE IF id = Null
        THEN /\ AccountRespond("login", 401, "Invalid credentials", Null)
             /\ UNCHANGED users
        ELSE IF ~users[id].isActive
        THEN /\ AccountRespond("login", 403,
                  "Your account has been deactivated. Please contact admin.", Null)
             /\ UNCHANGED users
        ELSE IF ~ComparePassword(users[id], password)
        THEN /\ AccountRespond("login", 401, "Invalid credentials", Null)
             /\ UNCHANGED users
        ELSE IF role # "" /\ users[id].role # role
        THEN /\ AccountRespond("login", 403, "You are not authorized to login as "
                                             \o role, Null)
             /\ UNCHANGED users
        ELSE IF NeedsApproval(users[id])
        THEN /\ AccountRespond("login", 403,
                  IF users[id].approvalStatus = "pending"
                  THEN "Your account is pending approval. Please wait for admin approval."
                  ELSE "Your account has been rejected. Please contact admin.", Null)
             /\ UNCHANGED users
        ELSE /\ users' = [users EXCEPT ![id].lastLogin = DateAt(now)]
             /\ AccountRespond("login", 200, "Login successful", generateToken(id))
  /\ UNCHANGED <<otpStore, reqs, now>>
  /\ AccountUnchanged

sendLoginOTP(email, otp, sent) ==
  /\ IF email = NoEmail
     THEN /\ AccountRespond("sendLoginOTP", 400, "Email is required", Null)
          /\ UNCHANGED otpStore
     ELSE IF email \notin DOMAIN users
     THEN /\ AccountRespond("sendLoginOTP", 404, "No account found with this email", Null)
          /\ UNCHANGED otpStore
     ELSE IF ~users[email].isActive
     THEN /\ AccountRespond("sendLoginOTP", 403, "Your account has been deactivated", Null)
          /\ UNCHANGED otpStore
     ELSE /\ otpStore' = MapSet(otpStore, LoginId(email), StoredOtp(otp, now))
          /\ IF sent
             THEN AccountRespond("sendLoginOTP", 200, "Login OTP sent to your email", Null)
             ELSE AccountRespond("sendLoginOTP", 500, "Error sending login OTP", Null)
  /\ UNCHANGED <<users, reqs, now>>
  /\ AccountUnchanged

verifyLoginOTP(email, otp) ==
  /\ IF email = NoEmail \/ otp = Undefined
     THEN /\ AccountRespond("verifyLoginOTP", 400, "Email and OTP are required", Null)
          /\ UNCHANGED otpStore
     ELSE LET result == VerifyOutcome(otpStore, LoginId(email), otp, now)
          IN /\ otpStore' = result.store
             /\ IF ~result.success
                THEN AccountRespond("verifyLoginOTP", 400, result.message, Null)
                ELSE IF email \notin DOMAIN users
                THEN AccountRespond("verifyLoginOTP", 404, "User not found", Null)
                ELSE AccountRespond("verifyLoginOTP", 200, "Login successful",
                                    generateToken(email))
  /\ UNCHANGED <<users, reqs, now>>
  /\ AccountUnchanged

approveUser(id, sent) ==
  /\ IF id \notin DOMAIN users
     THEN /\ AccountRespond("approveUser", 404, "User not found", Null)
          /\ UNCHANGED users
     ELSE IF users[id].approvalStatus = "approved"
     THEN /\ AccountRespond("approveUser", 400, "User is already approved", Null)
          /\ UNCHANGED users
     ELSE /\ users' = [users EXCEPT ![id].approvalStatus = "approved",
                                    ![id].isVerified = TRUE]
          /\ IF sent
             THEN AccountRespond("approveUser", 200, "User approved successfully", Null)
             ELSE AccountRespond("approveUser", 500, "Error approving user", Null)
  /\ UNCHANGED <<otpStore, reqs, now>>
  /\ AccountUnchanged

rejectUser(id) ==
  /\ IF id \notin DOMAIN users
     THEN /\ AccountRespond("rejectUser", 404, "User not found", Null)
          /\ UNCHANGED users
     ELSE /\ users' = [users EXCEPT ![id].approvalStatus = "rejected"]
          /\ AccountRespond("rejectUser", 200, "User rejected", Null)
  /\ UNCHANGED <<otpStore, reqs, now>>
  /\ AccountUnchanged

InitLogin ==
  /\ examSchedule = NewExamSchedule(30)
  /\ resp = NoResp
  /\ chains = <<>>
  /\ milestones = <<>>
  /\ studentMilestones = <<>>
  /\ reqs = <<>>
  /\ now = 0
  /\ otpStore = <<>>
  /\ users = <<>>
  /\ events = <<>>
  /\ teamDocs = <<>>

NextLogin ==
  \/ \E e \in Emails, pw \in SignupPasswords, role \in RoleInputs : signup(e, pw, role)
  \/ \E e \in EmailInputs, pw \in PasswordInputs, role \in RoleInputs : login(e, pw, role)
  \/ \E e \in EmailInputs, otp \in OtpCodes, sent \in BOOLEAN : sendLoginOTP(e, otp, sent)
  \/ \E e \in EmailInputs, otp \in OtpInputs \cup {Undefined} : verifyLoginOTP(e, otp)
  \/ \E e \in Emails, sent \in BOOLEAN : approveUser(e, sent)
  \/ \E e \in Emails : rejectUser(e)

SpecLogin == InitLogin /\ [][NextLogin]_vars

\* C27: a token in the answer of signup, login or verifyLoginOTP for a
\* student or mentor account means that the account is approved.
C27_TokenOnlyWhenApproved ==
  (/\ resp.op \in {"signup", "login", "verifyLoginOTP"}
   /\ resp.data.token # Null)
    => ~NeedsApproval(users[resp.data.token])

(***************************************************************************)
(* Event registration.  registerForEvent reads the event, checks the copy  *)
(* it read, pushes the registration onto that copy and saves it.  The save *)
(* of a pushed array element is a $push on the stored document, and the    *)
(* pre-save hook sets analytics.totalRegistered from the copy.  Requests   *)
(* interleave between the read and the save.                               *)
(***************************************************************************)
MaxParticipants == 1

Attendees == {"u1", "u2"}
SeedAttendees == <<"u3", "u4", "u5">>
EventIds == {1, 2}

NoEvent == [maxParticipants |-> 0, registrations |-> <<>>, totalRegistered |-> 0]

EventIdle == [op |-> "idle", pc |-> "idle", user |-> "", eventId |-> 0, event |-> NoEvent]

EventUnchanged ==
  UNCHANGED <<examSchedule, chains, milestones, studentMilestones, now,
              otpStore, users, teamDocs>>

Registration(user, t) == [user |-> user, registeredAt |-> DateAt(t), attended |-> FALSE]

\* event.registrations.some(reg => reg.user.toString() === req.user._id.toString())
AlreadyRegistered(event, user) ==
  \E i \in DOMAIN event.registrations : event.registrations[i].user = user

\* event.registrations.length >= event.maxParticipants
IsFull(event) == Len(event.registrations) >= event.maxParticipants

\* await Event.findById(id), the two checks and the push, all on the copy
reFindById(p, user, eventId) ==
  /\ IsIdle(p)
  /\ LET r == [EventIdle EXCEPT !.op = "registerForEvent", !.user = user,
                                !.eventId = eventId]
     IN IF eventId \notin DOMAIN events
        THEN /\ Respond("registerForEvent", 404, "Event not found", NoEvent)
             /\ reqs' = [reqs EXCEPT ![p] = [r EXCEPT !.pc = "done"]]
        ELSE IF AlreadyRegistered(events[eventId], user)
        THEN /\ Respond("registerForEvent", 400,
                        "You are already registered for this event", NoEvent)
             /\ reqs' = [reqs EXCEPT ![p] = [r EXCEPT !.pc = "done"]]
        ELSE IF IsFull(events[eventId])
        THEN /\ Respond("registerForEvent", 400, "Event is full", NoEvent)
             /\ reqs' = [reqs EXCEPT ![p] = [r EXCEPT !.pc = "done"]]
        ELSE /\ reqs' = [reqs EXCEPT ![p] =
                  [r EXCEPT !.pc = "re_save",
                            !.event = [events[eventId] EXCEPT !.registrations =
                                         Append(@, Registration(user, now))]]]
             /\ UNCHANGED resp
  /\ UNCHANGED events
  /\ EventUnchanged

\* await event.save(): { $push: { registrations }, $set: { analytics } }; 200
reSave(p) ==
  /\ At(p, "registerForEvent", "re_save")
  /\ LET r == reqs[p]
         pushed == r.event.registrations[Len(r.event.registrations)]
         saved == [r.event EXCEPT !.totalRegistered = Len(r.event.registrations)]
     IN /\ events' = [events EXCEPT ![r.eventId].registrations = Append(@, pushed),
                                    ![r.eventId].totalRegistered = saved.totalRegistered]
        /\ Respond("registerForEvent", 200, "Successfully registered for event", saved)
        /\ reqs' = [reqs EXCEPT ![p] = [r EXCEPT !.pc = "done", !.event = NoEvent]]
  /\ EventUnchanged

InitRegister ==
  /\ examSchedule = NewExamSchedule(30)
  /\ resp = NoResp
  /\ chains = <<>>
  /\ milestones = <<>>
  /\ studentMilestones = <<>>
  /\ reqs = [p \in Procs |-> EventIdle]
  /\ now = 0
  /\ otpStore = <<>>
  /\ users = <<>>
  /\ \E k \in 0..MaxParticipants :
       events = <<[maxParticipants |-> MaxParticipants,
                   registrations |-> [i \in 1..k |-> Registration(SeedAttendees[i], 0)],
                   totalRegistered |-> k]>>
  /\ teamDocs = <<>>

RegisterStep(p) ==
  \/ \E u \in Attendees, e \in EventIds : reFindById(p, u, e)
  \/ reSave(p)

\* one request at a time
NextRegisterSeq == RegisterStep(1)
SpecRegisterSeq == InitRegister /\ [][NextRegisterSeq]_vars

\* requests handled side by side
NextRegister == \E p \in Procs : RegisterStep(p)
SpecRegister == InitRegister /\ [][NextRegister]_vars

\* C28: no event ever holds more registrations than maxParticipants, and no
\* user is registered twice for an event.
C28_RegistrationsWithinLimit ==
  \A e \in DOMAIN events :
    /\ Len(events[e].registrations) <= events[e].maxParticipants
    /\ \A i, j \in DOMAIN events[e].registrations :
         events[e].registrations[i].user = events[e].registrations[j].user => i = j

(***************************************************************************)
(* Teams.  teamDocs holds the Team documents in the order of creation; a   *)
(* team's teamId is its place.  A document stores user ids as ObjectIds.   *)
(* req.user._id comes from the authentication middleware, either as an     *)
(* ObjectId or as its string; queries cast it, strict comparisons in the   *)
(* handlers do not.  Each call is taken as a whole.                        *)
(***************************************************************************)
MaxTeamDocs == 2
MaxJoinRequests == 2

TeamUsers == {"u1", "u2", "u3"}
TeamDocIds == 1..MaxTeamDocs
RequestIds == 1..MaxJoinRequests

ObjectId(u) == [k |-> "oid", v |-> u]
IdString(u) == [k |-> "str", v |-> u]
\* the values req.user._id may have for user u
UserIds == {ObjectId(u) : u \in TeamUsers} \cup {IdString(u) : u \in TeamUsers}
\* id.toString()
IdToString(id) == IdString(id.v)

TeamUnchanged ==
  UNCHANGED <<examSchedule, chains, milestones, studentMilestones, reqs, now,
              otpStore, users, events>>

IsMember(team, u) == \E i \in DOMAIN team.members : team.members[i].user = ObjectId(u)

\* Team.findOne({ 'members.user': userId, isDeleted: false }) finds a team
HasTeam(coll, userId) ==
  \E t \in DOMAIN coll : ~coll[t].isDeleted /\ IsMember(coll[t], userId.v)

\* Team.findOne({ teamId, isDeleted: false }) finds a team
FoundTeam(coll, teamId) == teamId \in DOMAIN coll /\ ~coll[teamId].isDeleted

\* team.joinRequests.find(req => req.user.toString() === userId && req.status === 'pending')
ExistingRequest(team, userId) ==
  \E i \in DOMAIN team.joinRequests :
    /\ IdToString(team.joinRequests[i].user) = userId
    /\ team.joinRequests[i].status = "pending"

\* team.members.filter(m => m.user.toString() !== userId)
FilterSeq(s, keep) ==
  LET F[i \in 0..Len(s)] ==
        IF i = 0 THEN <<>>
        ELSE IF s[i] \in keep THEN Append(F[i - 1], s[i]) ELSE F[i - 1]
  IN F[Len(s)]
WithoutMember(members, userId) ==
  FilterSeq(members, {m \in Range(members) : IdToString(m.user) # userId})

createTeam(userId) ==
  /\ Len(teamDocs) < MaxTeamDocs
  /\ IF HasTeam(teamDocs, userId)
     THEN /\ Respond("createTeam", 400, "You are already a member of a team", <<>>)
          /\ UNCHANGED teamDocs
     ELSE /\ teamDocs' = Append(teamDocs,
                           [leader |-> ObjectId(userId.v),
                            members |-> <<[user |-> ObjectId(userId.v), role |-> "leader"]>>,
                            joinRequests |-> <<>>,
                            isDeleted |-> FALSE])
          /\ Respond("createTeam", 201, "Team created successfully", <<>>)
  /\ TeamUnchanged

requestToJoin(userId, teamId) ==
  /\ IF HasTeam(teamDocs, userId)
     THEN /\ Respond("requestToJoin", 400, "You are already a member of a team", <<>>)
          /\ UNCHANGED teamDocs
     ELSE IF ~FoundTeam(teamDocs, teamId)
     THEN /\ Respond("requestToJoin", 404, "Team not found", <<>>)
          /\ UNCHANGED teamDocs
     ELSE IF ExistingRequest(teamDocs[teamId], userId)
     THEN /\ Respond("requestToJoin", 400,
                     "You have already requested to join this team", <<>>)
          /\ UNCHANGED teamDocs
     ELSE /\ Len(teamDocs[teamId].joinRequests) < MaxJoinRequests
          /\ teamDocs' = [teamDocs EXCEPT ![teamId].joinRequests =
                            Append(@, [user |-> ObjectId(userId.v), status |-> "pending"])]
          /\ Respond("requestToJoin", 200, "Join request sent successfully", <<>>)
  /\ TeamUnchanged

approveJoinRequest(userId, teamId, requestId) ==
  /\ IF ~FoundTeam(teamDocs, teamId)
     THEN /\ Respond("approveJoinRequest", 404, "Team not found", <<>>)
          /\ UNCHANGED teamDocs
     ELSE IF IdToString(teamDocs[teamId].leader) # IdToString(userId)
     THEN /\ Respond("approveJoinRequest", 403,
                     "Only team leader can approve requests", <<>>)
          /\ UNCHANGED teamDocs
     ELSE IF requestId \notin DOMAIN teamDocs[teamId].joinRequests
     THEN /\ Respond("approveJoinRequest", 404, "Request not found", <<>>)
          /\ UNCHANGED teamDocs
     ELSE IF teamDocs[teamId].joinRequests[requestId].status # "pending"
     THEN /\ Respond("approveJoinRequest", 400, "Request already processed", <<>>)
          /\ UNCHANGED teamDocs
     ELSE /\ teamDocs' =
               [teamDocs EXCEPT
                  ![teamId].members =
                     Append(@, [user |-> teamDocs[teamId].joinRequests[requestId].user,
                                role |-> "member"]),
                  ![teamId].joinRequests[requestId].status = "approved"]
          /\ Respond("approveJoinRequest", 200, "Request approved successfully", <<>>)
  /\ TeamUnchanged

leaveTeam(userId, teamId) ==
  /\ IF ~FoundTeam(teamDocs, teamId)
     THEN /\ Respond("leaveTeam", 404, "Team not found", <<>>)
          /\ UNCHANGED teamDocs
     ELSE IF IdToString(teamDocs[teamId].leader) = IdToString(userId)
     THEN /\ Respond("leaveTeam", 400,
               "Team leader cannot leave. Transfer leadership first or delete the team.",
               <<>>)
          /\ UNCHANGED teamDocs
     ELSE /\ teamDocs' = [teamDocs EXCEPT ![teamId].members = WithoutMember(@, userId)]
          /\ Respond("leaveTeam", 200, "You have left the team successfully", <<>>)
  /\ TeamUnchanged

deleteTeam(userId, teamId) ==
  /\ IF ~FoundTeam(teamDocs, teamId)
     THEN /\ Respond("deleteTeam", 404, "Team not found", <<>>)
          /\ UNCHANGED teamDocs
     ELSE IF IdToString(teamDocs[teamId].leader) # IdToString(userId)
     THEN /\ Respond("deleteTeam", 403, "Only team leader can delete the team", <<>>)
          /\ UNCHANGED teamDocs
     ELSE /\ teamDocs' = [teamDocs EXCEPT ![teamId].isDeleted = TRUE]
          /\ Respond("deleteTeam", 200, "Team deleted successfully", <<>>)
  /\ TeamUnchanged

InitTeam ==
  /\ examSchedule = NewExamSchedule(30)
  /\ resp = NoResp
  /\ chains = <<>>
  /\ milestones = <<>>
  /\ studentMilestones = <<>>
  /\ reqs = <<>>
  /\ now = 0
  /\ NoStores

NextTeam ==
  \/ \E u \in UserIds : createTeam(u)
  \/ \E u \in UserIds, t \in TeamDocIds : requestToJoin(u, t)
  \/ \E u \in UserIds, t \in TeamDocIds, r \in RequestIds : approveJoinRequest(u, t, r)
  \/ \E u \in UserIds, t \in TeamDocIds : leaveTeam(u, t)
  \/ \E u \in UserIds, t \in TeamDocIds : deleteTeam(u, t)

SpecTeam == InitTeam /\ [][NextTeam]_vars

\* C29: no user is a member of two teams that are not deleted.
C29_AtMostOneTeam ==
  \A u \in TeamUsers :
    \A s, t \in DOMAIN teamDocs :
      (/\ ~teamDocs[s].isDeleted /\ IsMember(teamDocs[s], u)
       /\ ~teamDocs[t].isDeleted /\ IsMember(teamDocs[t], u)) => s = t

(***************************************************************************)
(* Auto-grading of a quiz with a free-text question, for answer sheets     *)
(* that cover all questions, some of them, one of them twice, or none.     *)
(***************************************************************************)
ExamQuestions ==
  <<[_id |-> 1, type |-> "multiple-choice", correctAnswer |-> "a", points |-> 1],
    [_id |-> 2, type |-> "true-false", correctAnswer |-> "true", points |-> 1],
    [_id |-> 3, type |-> "short-answer", correctAnswer |-> "", points |-> 2]>>

QuizSheets ==
  {<<[questionId |-> 1, answer |-> "a"], [questionId |-> 2, answer |-> "true"],
     [questionId |-> 3, answer |-> "text"]>>,
   <<[questionId |-> 1, answer |-> "a"], [questionId |-> 2, answer |-> "false"],
     [questionId |-> 3, answer |-> ""]>>,
   <<[questionId |-> 1, answer |-> "a"]>>,
   <<[questionId |-> 1, answer |-> "a"], [questionId |-> 1, answer |-> "a"]>>,
   <<[questionId |-> 3, answer |-> "text"]>>,
   <<[questionId |-> 9, answer |-> "a"]>>,
   <<>>}

InitQuiz ==
  /\ examSchedule = NewExamSchedule(30)
  /\ resp = NoResp
  /\ chains = <<[_id |-> 1, status |-> "published", publishedBy |-> Admin,
                 publishedAt |-> DateAt(0), totalMilestones |-> 1,
                 publishedMilestones |-> 1,
                 editors |-> <<[user |-> Admin, lastEditedAt |-> DateAt(0)]>>]>>
  /\ milestones = <<PublishedMilestone(1, "Quiz", "quiz", QuizDuration, ExamQuestions)>>
  /\ studentMilestones = <<>>
  /\ reqs = [p \in Procs |-> StudentIdle]
  /\ now = 0
  /\ NoStores

\* startMilestone and submitQuizAnswers requests of student s1, one at a time
NextQuiz ==
  \/ \E m \in MilestoneIds : smFindMilestone(1, "s1", m)
  \/ smFindOne(1)
  \/ smCreate(1)
  \/ smSave(1)
  \/ \E m \in MilestoneIds, a \in QuizSheets : sqFindMilestone(1, "s1", m, a)
  \/ sqFindOne(1)
  \/ sqSaveFailed(1)
  \/ sqSave(1)
  \/ Tick

SpecQuiz == InitQuiz /\ [][NextQuiz]_vars

RECURSIVE SumPoints(_)
SumPoints(questions) ==
  IF questions = <<>> THEN 0 ELSE Head(questions).points + SumPoints(Tail(questions))

\* the multiple-choice and true-false questions the sheet answers correctly
CorrectlyAnswered(questions, answers) ==
  FilterSeq(questions,
            {q \in Range(questions) :
               /\ q.type \in {"multiple-choice", "true-false"}
               /\ \E i \in DOMAIN answers :
                    /\ answers[i].questionId = q._id
                    /\ answers[i].answer = q.correctAnswer})

\* C30: the save of a successful submitQuizAnswers leaves maxScore equal to
\* the points of all questions of the milestone and score equal to the
\* points of the multiple-choice and true-false questions answered
\* correctly, whatever questions the sheet covers and however often; so
\* 0 <= score <= maxScore.
C30_QuizScores ==
  [][sqSave(1) =>
       LET doc == studentMilestones'[reqs[1].submissionId]
           questions == milestones[reqs[1].milestoneId].questions
       IN /\ doc.maxScore = J(SumPoints(questions))
          /\ doc.score = J(SumPoints(CorrectlyAnswered(questions, reqs[1].answers)))
          /\ 0 <= doc.score.v
          /\ doc.score.v <= doc.maxScore.v]_vars

====
